---- MODULE Spec2Model ----
(***************************************************************************)
(* TE GROUP lead-intake bot: the conversation funnel (bot/handlers),       *)
(* the lead store (bot/db.py) and the anti-spam guard (bot/middleware.py). *)
(*                                                                         *)
(* Conventions.                                                            *)
(*  - A Python dict is a function whose DOMAIN is the set of its keys; a   *)
(*    missing key is a key outside the DOMAIN.                             *)
(*  - A float is an integer number of tenths (300.0 is 3000, 0.5 is 5).    *)
(*  - Callback data "a:b:c" is the tuple <<"a","b","c">> that              *)
(*    cb.data.split(":") yields.                                           *)
(*  - FSM state None (no active conversation) is the string "none".        *)
(***************************************************************************)
EXTENDS Integers, Sequences, FiniteSets, TLC

VARIABLES
    fsm,          \* MemoryStorage: user id -> [state, data]
    pool,         \* bot.db.pool: "none" (None) or "pool"
    leads,        \* rows of table leads, in insertion order
    out,          \* what the handling of the last inbound event produced
    rate,         \* AntiSpamMiddleware._rate: uid -> list of timestamps
    dedup,        \* AntiSpamMiddleware._dedup: uid -> (hash -> timestamp)
    last_cleanup, \* AntiSpamMiddleware._last_cleanup
    now,          \* time.monotonic(), in seconds
    verdict,      \* guard's decision on the last arrival
    handled,      \* arrival times of the texts the guard passed to a handler
    twin,         \* a guard that never runs _cleanup, given the same arrivals
    proc          \* the process: polling loop, database reachability, reconnect tasks

vars == <<fsm, pool, leads, out, rate, dedup, last_cleanup, now, verdict, handled, twin,
          proc>>
funnelVars == <<fsm, pool, leads, out>>
guardVars == <<rate, dedup, last_cleanup, now, verdict, handled, twin>>

----------------------------------------------------------------------------
(* Python helpers                                                          *)

EmptyDict == << >>

DictGet(d, k, default) == IF k \in DOMAIN d THEN d[k] ELSE default

\* dict.update / {**old, **new}
DictMerge(old, new) ==
    [k \in (DOMAIN old) \cup (DOMAIN new) |->
        IF k \in DOMAIN new THEN new[k] ELSE old[k]]

\* float("nan"): the float that is not a number.  It stands outside the
\* tenths the other floats are counted in.
NaN == -1

\* x <= 0 on floats: no comparison holds for nan
FloatLeqZero(x) == x # NaN /\ x <= 0

\* float(s) on the strings the model's users and tables produce; ok = FALSE is
\* ValueError.  Values are tenths.
PyFloat(s) ==
    CASE s = "500"   -> [ok |-> TRUE, val |-> 5000]
      [] s = "nan"   -> [ok |-> TRUE, val |-> NaN]
      [] s = "-5"    -> [ok |-> TRUE, val |-> -50]
      [] s = "500.0" -> [ok |-> TRUE, val |-> 5000]
      [] s = "2.5"   -> [ok |-> TRUE, val |-> 25]
      [] s = "15000" -> [ok |-> TRUE, val |-> 150000]
      [] s = "0"     -> [ok |-> TRUE, val |-> 0]
      [] OTHER       -> [ok |-> FALSE, val |-> 0]

\* str(f) for the floats float() yields above
PyStr(f) ==
    CASE f = 5000   -> "500.0"
      [] f = NaN    -> "nan"
      [] f = 25     -> "2.5"
      [] f = 150000 -> "15000.0"
      [] OTHER      -> "0.0"

\* text.replace(",", ".").strip() on the model's texts
ReplaceComma(s) == IF s = "2,5" THEN "2.5" ELSE s

----------------------------------------------------------------------------
(* bot/keyboards.py                                                        *)

WEIGHT_TO_FLOAT ==
    [w_100 |-> 500, w_500 |-> 3000, w_1000 |-> 7500,
     w_5000 |-> 30000, w_20000 |-> 125000, w_20000p |-> 250000]

VOLUME_TO_FLOAT ==
    [v_1 |-> 5, v_5 |-> 30, v_10 |-> 75, v_33 |-> 215, v_67 |-> 500, v_67p |-> 800]

INVOICE_TO_FLOAT ==
    [inv_1000 |-> 5000, inv_5000 |-> 30000, inv_20000 |-> 125000,
     inv_50000 |-> 350000, inv_100000 |-> 750000, inv_100000p |-> 1500000]

\* The buttons of each keyboard the model's users press (a sample of each
\* keyboard's options, with its custom/other option and its back row).
service_kb == {<<"service", "customs">>, <<"service", "delivery">>}
cargo_kb == {<<"cargo", "electronics">>}
country_kb == {<<"country", "china">>, <<"country", "other">>}

\* CITIES_BY_COUNTRY, with one of the cities of each country the model uses
CITIES_BY_COUNTRY == [china |-> {"Guangzhou"}]

\* city_kb(country): a button per city of the country, then the custom one
city_kb(country) ==
    {<<"city", country, city>> :
        city \in IF country \in DOMAIN CITIES_BY_COUNTRY
                 THEN CITIES_BY_COUNTRY[country] ELSE {}}
    \cup {<<"city", country, "__custom__">>}

weight_kb == {<<"weight", "w_500">>, <<"weight", "__custom__">>}
volume_kb == {<<"volume", "v_5">>, <<"volume", "__custom__">>}
urgency_kb == {<<"urgency", "standard">>}
incoterms_kb == {<<"terms", "exw">>}
invoice_kb == {<<"invoice", "inv_5000">>, <<"invoice", "__custom__">>}
customs_urgency_kb == {<<"curgency", "normal">>}
skip_comment_kb == {<<"skip_comment">>}
after_submit_kb == {<<"action", "call">>, <<"action", "restart">>}

with_back(kb, target) == kb \cup {<<"back", target>>}

----------------------------------------------------------------------------
(* bot/config.py                                                           *)

admin_ids == <<9001, 9002>>
Admins == {admin_ids[i] : i \in DOMAIN admin_ids}

----------------------------------------------------------------------------
(* aiogram FSMContext over MemoryStorage                                   *)

Conv(s, d) == [state |-> s, data |-> d]

\* state.clear(): state None and data {}
clear == Conv("none", EmptyDict)

update_data(c, kv) == [c EXCEPT !.data = DictMerge(c.data, kv)]

set_state(c, s) == [c EXCEPT !.state = s]

\* An inbound update.  kind "callback": data is cb.data split on ":";
\* kind "message": text is message.text or "" and contact the shared phone
\* number ("" when the message carries no contact).
Callback(uid, parts) ==
    [kind |-> "callback", uid |-> uid, data |-> parts, text |-> "", contact |-> ""]

TextMessage(uid, text) ==
    [kind |-> "message", uid |-> uid, data |-> << >>, text |-> text, contact |-> ""]

ContactMessage(uid, phone) ==
    [kind |-> "message", uid |-> uid, data |-> << >>, text |-> "", contact |-> phone]

\* What a handler run leaves behind: the conversation, the table and the
\* observable effects o (merged over OutBase by Handle).
Ret(c, rows, o) == [conv |-> c, rows |-> rows, o |-> o]

\* The handler returned normally.
Ok(c, rows, notice) == Ret(c, rows, [notice |-> notice])

\* The handler returned after _edit_card showed the next card: e.sent tells
\* whether the card was edited in place or sent as a new message.
Shown(c, rows, e) == Ret(c, rows, [notice |-> "card", card_sent |-> e.sent])

\* An exception left the handler (it reaches global_error_handler).
Raised(c, rows) == Ret(c, rows, [raised |-> TRUE])

OutBase ==
    [handler |-> "", event |-> Callback(0, << >>), had_state |-> FALSE,
     raised |-> FALSE, notice |-> "", lead |-> EmptyDict, answers |-> EmptyDict,
     lead_id |-> 0, stored |-> FALSE, confirmed |-> FALSE,
     attempted |-> {}, delivered |-> {}, header |-> EmptyDict, username |-> "",
     chat_ok |-> TRUE, store_ok |-> FALSE, admins_up |-> {},
     called |-> FALSE, ok |-> FALSE, target |-> 0, status |-> "",
     before |-> << >>, at |-> 0, disclosed |-> {},
     card_sent |-> FALSE, logged |-> FALSE, attempt |-> 0, waited |-> 0,
     keyboard |-> {}, saves |-> 0, rounds |-> 0]

\* id of a message the bot has just sent to the chat
NewMessageId == "msg"

\* _edit_card: edit the card in place, fall back to a new message if editing
\* fails; message id 0 (no card_message_id stored) can never be edited.
edit_card(card_id, env) ==
    IF card_id # "0" /\ env.edit_ok
    THEN [ok |-> TRUE, id |-> card_id, sent |-> FALSE]
    ELSE IF env.send_ok
         THEN [ok |-> TRUE, id |-> NewMessageId, sent |-> TRUE]
         ELSE [ok |-> FALSE, id |-> card_id, sent |-> FALSE]

\* _show_phone_step: edit the card, then send the ReplyKeyboard message.
show_phone_step(card_id, env) ==
    LET e == edit_card(card_id, env)
    IN  IF e.ok /\ env.send_ok THEN e
        ELSE [ok |-> FALSE, id |-> card_id, sent |-> e.sent]

----------------------------------------------------------------------------
(* bot/handlers/funnel.py: handlers.  Each takes the user's conversation   *)
(* c, the event ev, the table rows and env, the outcome of the transport   *)
(* and store calls the handler makes:                                      *)
(*   env.edit_ok    editing a message in place succeeds                    *)
(*   env.send_ok    sending a message to the user's chat succeeds          *)
(*   env.db_ok      acquiring a connection from a live pool succeeds       *)
(*   env.admins_ok  the staff recipients to whom a send succeeds           *)
(*   env.username   the sender's username ("" when they have none)         *)

\* A step answered with a button: update_data, edit the card, set_state.
\* cb.message.edit_text raising leaves the answer stored and the step as it was.
PickStep(c, rows, env, kv, next) ==
    LET c1 == update_data(c, kv)
    IN  IF env.edit_ok THEN Ok(set_state(c1, next), rows, "card") ELSE Raised(c1, rows)

\* A custom/other option that would store the option's token as the answer
PickCustomStoring(c, rows, env) ==
    IF env.edit_ok
    THEN Ok(update_data(c, [custom |-> "__custom__"]), rows, "ask_text")
    ELSE Raised(c, rows)

\* The custom/other option of a preset step: the card is edited to ask for
\* text; nothing is stored and the step stays.
PickCustom(c, rows, env) ==
    IF env.edit_ok THEN Ok(c, rows, "ask_text") ELSE Raised(c, rows)

\* A step answered with text: update_data, _edit_card, store the card id,
\* set_state.
TypeStep(c, rows, env, kv, next) ==
    LET c1 == update_data(c, kv)
        e  == edit_card(DictGet(c1.data, "card_message_id", "0"), env)
    IN  IF e.ok
        THEN Shown(set_state(update_data(c1, [card_message_id |-> e.id]), next), rows, e)
        ELSE Raised(c1, rows)

\* A rejected text: message.answer with the retry prompt, then return.
Retry(c, rows, env) ==
    IF env.send_ok THEN Ok(c, rows, "retry") ELSE Raised(c, rows)

pick_service(c, ev, rows, env) ==
    LET value == ev.data[2]
    IN  PickStep(c, rows, env, [service |-> value],
                 IF value = "customs" THEN "customs_cargo" ELSE "country")

pick_customs_cargo(c, ev, rows, env) ==
    PickStep(c, rows, env, [cargo_type |-> ev.data[2]], "customs_country")

pick_customs_country(c, ev, rows, env) ==
    IF ev.data[2] = "other"
    THEN PickCustom(c, rows, env)
    ELSE PickStep(c, rows, env, [country |-> ev.data[2]], "invoice_value")

type_customs_country(c, ev, rows, env) ==
    IF Len(ev.text) < 2
    THEN Retry(c, rows, env)
    ELSE TypeStep(c, rows, env, [country |-> ev.text], "invoice_value")

pick_invoice(c, ev, rows, env) ==
    LET value == ev.data[2]
    IN  IF value = "__custom__"
        THEN PickCustom(c, rows, env)
        ELSE PickStep(c, rows, env,
                      [invoice_value |-> value,
                       invoice_value_num |-> DictGet(INVOICE_TO_FLOAT, value, 0)],
                      "customs_urgency")

type_invoice(c, ev, rows, env) ==
    LET raw == ReplaceComma(ev.text)
        num == PyFloat(raw)
    IN  IF ~num.ok \/ FloatLeqZero(num.val)
        THEN Retry(c, rows, env)
        ELSE TypeStep(c, rows, env,
                      [invoice_value |-> raw, invoice_value_num |-> num.val],
                      "customs_urgency")

pick_customs_urgency(c, ev, rows, env) ==
    LET c1 == update_data(c, [customs_urgency |-> ev.data[2]])
        e  == show_phone_step(DictGet(c1.data, "card_message_id", "0"), env)
    IN  IF e.ok
        THEN Shown(set_state(update_data(c1, [card_message_id |-> e.id]), "phone"), rows, e)
        ELSE Raised(c1, rows)

pick_country(c, ev, rows, env) ==
    IF ev.data[2] = "other"
    THEN PickCustom(c, rows, env)
    ELSE PickStep(c, rows, env, [country |-> ev.data[2]], "city")

type_other_country(c, ev, rows, env) ==
    IF Len(ev.text) < 2
    THEN Retry(c, rows, env)
    ELSE TypeStep(c, rows, env, [country |-> ev.text], "city")

pick_city(c, ev, rows, env) ==
    IF Len(ev.data) < 3
    THEN Ok(c, rows, "bad_button")
    ELSE IF ev.data[3] = "__custom__"
         THEN PickCustom(c, rows, env)
         ELSE PickStep(c, rows, env, [city_from |-> ev.data[3]], "cargo_type")

type_city(c, ev, rows, env) ==
    IF Len(ev.text) < 2
    THEN Retry(c, rows, env)
    ELSE TypeStep(c, rows, env, [city_from |-> ev.text], "cargo_type")

pick_cargo(c, ev, rows, env) ==
    PickStep(c, rows, env, [cargo_type |-> ev.data[2]], "weight")

pick_weight(c, ev, rows, env) ==
    IF ev.data[2] = "__custom__"
    THEN PickCustom(c, rows, env)
    ELSE PickStep(c, rows, env, [weight_kg |-> ev.data[2]], "volume")

type_weight(c, ev, rows, env) ==
    LET w == PyFloat(ReplaceComma(ev.text))
    IN  IF ~w.ok \/ FloatLeqZero(w.val)
        THEN Retry(c, rows, env)
        ELSE TypeStep(c, rows, env, [weight_kg |-> PyStr(w.val)], "volume")

pick_volume(c, ev, rows, env) ==
    IF ev.data[2] = "__custom__"
    THEN PickCustom(c, rows, env)
    ELSE PickStep(c, rows, env, [volume_m3 |-> ev.data[2]], "urgency")

type_volume(c, ev, rows, env) ==
    LET v == PyFloat(ReplaceComma(ev.text))
    IN  IF ~v.ok \/ FloatLeqZero(v.val)
        THEN Retry(c, rows, env)
        ELSE TypeStep(c, rows, env, [volume_m3 |-> PyStr(v.val)], "urgency")

pick_urgency(c, ev, rows, env) ==
    PickStep(c, rows, env, [urgency |-> ev.data[2]], "incoterms")

pick_incoterms(c, ev, rows, env) ==
    LET c1 == update_data(c, [incoterms |-> ev.data[2]])
        e  == show_phone_step(DictGet(c1.data, "card_message_id", "0"), env)
    IN  IF e.ok
        THEN Shown(set_state(update_data(c1, [card_message_id |-> e.id]), "phone"), rows, e)
        ELSE Raised(c1, rows)

\* share_phone_contact and type_phone after the phone is known: store it,
\* _edit_card, store the card id, message.answer, set_state(comment).
PhoneStep(c, rows, env, phone) ==
    LET c1 == update_data(c, [phone |-> phone])
        e  == edit_card(DictGet(c1.data, "card_message_id", "0"), env)
        c2 == update_data(c1, [card_message_id |-> e.id])
    IN  IF ~e.ok THEN Raised(c1, rows)
        ELSE IF ~env.send_ok THEN Raised(c2, rows)
        ELSE Shown(set_state(c2, "comment"), rows, e)

share_phone_contact(c, ev, rows, env) == PhoneStep(c, rows, env, ev.contact)

type_phone(c, ev, rows, env) ==
    IF Len(ev.text) < 6
    THEN Retry(c, rows, env)
    ELSE PhoneStep(c, rows, env, ev.text)

----------------------------------------------------------------------------
(* bot/db.py                                                               *)

\* _check_pool: raises RuntimeError when the pool is None
check_pool(p) == p # "none"

\* The INSERT of save_lead, as written: its column list, its VALUES list
\* (param i is the placeholder $i, param 0 a literal) and the arguments the
\* call passes after the statement.
INSERT_COLUMNS ==
    <<"telegram_id", "username", "full_name",
      "service_type", "customs_direction", "invoice_value",
      "country", "city_from",
      "cargo_type", "weight_kg", "volume_m3",
      "urgency", "incoterms",
      "phone", "comment", "status">>

Placeholder(i) == [param |-> i, lit |-> ""]

Literal(s) == [param |-> 0, lit |-> s]

INSERT_VALUES ==
    <<Placeholder(1), Placeholder(2), Placeholder(3), Placeholder(4),
      Placeholder(5), Placeholder(6), Placeholder(7), Placeholder(8),
      Placeholder(9), Placeholder(10), Placeholder(11), Placeholder(12),
      Placeholder(13), Placeholder(14), Placeholder(15), Placeholder(16),
      Literal("NEW")>>

\* float(x or 0) of a numeric field
FloatOrZero(d, k) == DictGet(d, k, 0)

save_lead_args(data) ==
    <<data["telegram_id"],
      DictGet(data, "username", ""),
      DictGet(data, "full_name", ""),
      DictGet(data, "service_type", "delivery"),
      DictGet(data, "customs_direction", ""),
      FloatOrZero(data, "invoice_value_num"),
      DictGet(data, "country", ""),
      DictGet(data, "city_from", ""),
      DictGet(data, "cargo_type", ""),
      FloatOrZero(data, "weight_kg"),
      FloatOrZero(data, "volume_m3"),
      DictGet(data, "urgency", ""),
      DictGet(data, "incoterms", ""),
      DictGet(data, "phone", ""),
      DictGet(data, "comment", "")>>

\* The placeholders a VALUES list refers to
ParamsOf(values) == {values[i].param : i \in DOMAIN values} \ {0}

\* conn.fetchrow of an INSERT ... RETURNING id.  The server rejects a statement
\* whose VALUES list and column list differ in length, and a call whose
\* arguments are not exactly the placeholders $1..$n of the statement;
\* otherwise one row is appended, with the next serial id, and that id is
\* returned.
PgInsert(columns, values, args, rows) ==
    IF Len(values) # Len(columns) \/ ParamsOf(values) # 1..Len(args)
    THEN [ok |-> FALSE, id |-> 0, rows |-> rows]
    ELSE LET id  == Len(rows) + 1
             row == [k \in {columns[i] : i \in DOMAIN columns} \cup {"id"} |->
                        IF k = "id" THEN id
                        ELSE LET i == CHOOSE j \in DOMAIN columns : columns[j] = k
                             IN  IF values[i].param = 0
                                 THEN values[i].lit
                                 ELSE args[values[i].param]]
         IN  [ok |-> TRUE, id |-> id, rows |-> Append(rows, row)]

\* save_lead: ok = FALSE is an exception leaving save_lead.
save_lead(data, p, rows, db_ok) ==
    IF ~check_pool(p) \/ ~db_ok
    THEN [ok |-> FALSE, id |-> 0, rows |-> rows]
    ELSE PgInsert(INSERT_COLUMNS, INSERT_VALUES, save_lead_args(data), rows)

----------------------------------------------------------------------------
(* bot/handlers/funnel.py: finalization, back navigation, restart          *)

safe_float(v) == LET f == PyFloat(v) IN IF f.ok THEN f.val ELSE 0

\* TABLE.get(value) or _safe_float(value)
resolve_weight(value) ==
    LET t == DictGet(WEIGHT_TO_FLOAT, value, 0)
    IN  IF t # 0 THEN t ELSE safe_float(value)

resolve_volume(value) ==
    LET t == DictGet(VOLUME_TO_FLOAT, value, 0)
    IN  IF t # 0 THEN t ELSE safe_float(value)

full_name(uid) == "Customer"

\* A lead that would carry every accumulated answer, whichever the track
lead_data_of_every_answer(data, ev, env) ==
    DictMerge([k \in DOMAIN data \ {"card_id", "card_message_id", "service",
                                     "weight_kg", "volume_m3"} |-> data[k]],
              [telegram_id  |-> ev.uid,
               username     |-> env.username,
               full_name    |-> full_name(ev.uid),
               service_type |-> DictGet(data, "service", "delivery"),
               weight_kg    |-> resolve_weight(DictGet(data, "weight_kg", "0")),
               volume_m3    |-> resolve_volume(DictGet(data, "volume_m3", "0"))])

\* The lead_data dict _finish_order builds from the accumulated answers
lead_data_of(data, ev, env) ==
    LET service == DictGet(data, "service", "delivery")
        base == [telegram_id  |-> ev.uid,
                 username     |-> env.username,
                 full_name    |-> full_name(ev.uid),
                 service_type |-> service,
                 country      |-> DictGet(data, "country", ""),
                 phone        |-> DictGet(data, "phone", ""),
                 comment      |-> DictGet(data, "comment", "")]
    IN  IF service = "customs"
        THEN DictMerge(base,
                 [cargo_type        |-> DictGet(data, "cargo_type", ""),
                  invoice_value     |-> DictGet(data, "invoice_value", ""),
                  invoice_value_num |-> FloatOrZero(data, "invoice_value_num"),
                  customs_urgency   |-> DictGet(data, "customs_urgency", "")])
        ELSE DictMerge(base,
                 [city_from  |-> DictGet(data, "city_from", ""),
                  cargo_type |-> DictGet(data, "cargo_type", ""),
                  weight_kg  |-> resolve_weight(DictGet(data, "weight_kg", "0")),
                  volume_m3  |-> resolve_volume(DictGet(data, "volume_m3", "0")),
                  urgency    |-> DictGet(data, "urgency", ""),
                  incoterms  |-> DictGet(data, "incoterms", "")])

\* _finish_order: build the lead, save_lead, confirm to the user, notify
\* each admin (each send in its own try/except), state.clear().  Neither
\* save_lead nor the confirmation is inside a try.
finish_order(c, ev, rows, env, p) ==
    LET lead == lead_data_of(c.data, ev, env)
        s    == save_lead(lead, p, rows, env.db_ok)
        seen == [lead |-> lead, answers |-> c.data,
                 store_ok |-> check_pool(p) /\ env.db_ok, admins_up |-> env.admins_ok]
    IN  IF ~s.ok
        THEN Ret(c, rows, DictMerge(seen, [raised |-> TRUE]))
        ELSE IF ~env.send_ok
        THEN Ret(c, s.rows,
                 DictMerge(seen, [raised |-> TRUE, stored |-> TRUE, lead_id |-> s.id]))
        ELSE Ret(clear, s.rows,
                 DictMerge(seen, [stored |-> TRUE, lead_id |-> s.id, confirmed |-> TRUE,
                                  attempted |-> Admins, delivered |-> env.admins_ok,
                                  notice |-> "accepted"]))

skip_comment(c, ev, rows, env, p) ==
    LET c1 == update_data(c, [comment |-> ""])
    IN  IF ~env.edit_ok THEN Raised(c1, rows) ELSE finish_order(c1, ev, rows, env, p)

type_comment(c, ev, rows, env, p) ==
    finish_order(update_data(c, [comment |-> ev.text]), ev, rows, env, p)

\* A back map that restores the step before the one named
BackTargetShifted ==
    [service |-> "service",
     customs_cargo |-> "service", customs_country |-> "customs_cargo",
     invoice |-> "customs_country", customs_urgency |-> "invoice_value",
     country |-> "service", city |-> "country", cargo |-> "city",
     weight |-> "cargo_type", volume |-> "weight", urgency |-> "volume",
     incoterms |-> "urgency"]

\* handle_back: the step each back:<target> restores
BackTarget ==
    [service |-> "service",
     customs_cargo |-> "customs_cargo", customs_country |-> "customs_country",
     invoice |-> "invoice_value", customs_urgency |-> "customs_urgency",
     country |-> "country", city |-> "city", cargo |-> "cargo_type",
     weight |-> "weight", volume |-> "volume", urgency |-> "urgency",
     incoterms |-> "incoterms"]

\* handle_back: the reply_markup each back:<target> branch passes to edit_text
BackKeyboard(target, data) ==
    CASE target = "service"         -> service_kb
      [] target = "customs_cargo"   -> with_back(cargo_kb, "service")
      [] target = "customs_country" -> with_back(country_kb, "customs_cargo")
      [] target = "invoice"         -> with_back(invoice_kb, "customs_country")
      [] target = "customs_urgency" -> with_back(customs_urgency_kb, "invoice")
      [] target = "country"         -> with_back(country_kb, "service")
      [] target = "city"            ->
             with_back(city_kb(DictGet(data, "country", "")), "country")
      [] target = "cargo"           -> with_back(cargo_kb, "city")
      [] target = "weight"          -> with_back(weight_kb, "cargo")
      [] target = "volume"          -> with_back(volume_kb, "weight")
      [] target = "urgency"         -> with_back(urgency_kb, "volume")
      [] target = "incoterms"       -> with_back(incoterms_kb, "urgency")
      [] OTHER                      -> {}

\* A back action that would clear the answers of the run
handle_back_clearing(c, ev, rows, env) ==
    LET target == ev.data[2]
    IN  IF target \notin DOMAIN BackTarget THEN Ok(c, rows, "")
        ELSE IF ~env.edit_ok THEN Raised(c, rows)
        ELSE Ret(Conv(BackTarget[target], EmptyDict), rows,
                 [notice |-> "card", keyboard |-> BackKeyboard(target, EmptyDict)])

handle_back(c, ev, rows, env) ==
    LET target == ev.data[2]
    IN  IF target \notin DOMAIN BackTarget THEN Ok(c, rows, "")
        ELSE IF ~env.edit_ok THEN Raised(c, rows)
        ELSE Ret(set_state(c, BackTarget[target]), rows,
                 [notice |-> "card", keyboard |-> BackKeyboard(target, c.data)])

action_info(c, ev, rows, env) ==
    IF env.send_ok THEN Ok(c, rows, "info") ELSE Raised(c, rows)

action_restart(c, ev, rows, env) ==
    IF ~env.send_ok THEN Raised(clear, rows)
    ELSE Ok(set_state(update_data(clear, [card_message_id |-> NewMessageId]), "service"),
            rows, "welcome")

----------------------------------------------------------------------------
(* bot/handlers/common.py                                                  *)

\* A start that would keep the answers of the run in progress
cmd_start_keeping_answers(c, ev, rows, env) ==
    IF env.send_ok
    THEN Ok(set_state(update_data(c, [card_id |-> NewMessageId]), "service"),
            rows, "welcome")
    ELSE Raised(c, rows)

\* cmd_start (and text_start, which calls it): state.clear(), then in a try
\* the welcome card, update_data(card_id=...), set_state(service); the except
\* branch answers once more, outside any try.
cmd_start(c, ev, rows, env) ==
    IF env.send_ok
    THEN Ok(set_state(update_data(clear, [card_id |-> NewMessageId]), "service"),
            rows, "welcome")
    ELSE Raised(clear, rows)

\* The phrases text_start matches, lower-cased (the Latin ones)
START_WORDS == {"start", "menu"}

\* expired_callback: cb.answer with the session-expired notice, then in a
\* try: a new welcome card, state.clear(), update_data, set_state(service).
expired_callback(c, ev, rows, env) ==
    IF env.send_ok
    THEN Ok(set_state(update_data(clear, [card_id |-> NewMessageId]), "service"),
            rows, "expired")
    ELSE Ok(c, rows, "expired")

\* The header fallback_forward sends before the forwarded message
forward_header(ev, env) ==
    [name |-> full_name(ev.uid), username |-> env.username, id |-> ev.uid]

\* The same loop were it to stop at the first admin a send fails for
forward_recipients_until_failure(ids, ok) ==
    {ids[i] : i \in {j \in DOMAIN ids : \A k \in 1..(j - 1) : ids[k] \in ok}}

\* The recipients the loop over settings.admin_ids reaches: each send is in
\* its own try/except, so all of them.
forward_recipients(ids, ok) ==
    {ids[i] : i \in DOMAIN ids}

\* fallback_forward: header and forward to each admin, then tell the user
\* the message was received (that last answer is outside any try).
fallback_forward(c, ev, rows, env) ==
    LET to == forward_recipients(admin_ids, env.admins_ok)
        o  == [header |-> forward_header(ev, env),
               attempted |-> to,
               delivered |-> to \cap env.admins_ok]
    IN  IF env.send_ok
        THEN Ret(c, rows, DictMerge(o, [notice |-> "received"]))
        ELSE Ret(c, rows, DictMerge(o, [raised |-> TRUE]))

----------------------------------------------------------------------------
(* bot/main.py: router order common, admin, funnel, fallback; within a     *)
(* router the first handler whose filters pass takes the event.            *)

HasPrefix(ev, prefix) == Len(ev.data) >= 2 /\ ev.data[1] = prefix

RouteMessage(c, ev) ==
    IF ev.text = "/start" THEN "cmd_start"
    ELSE IF ev.text \in START_WORDS THEN "text_start"
    ELSE IF c.state = "customs_country" THEN "type_customs_country"
    ELSE IF c.state = "invoice_value" THEN "type_invoice"
    ELSE IF c.state = "country" THEN "type_other_country"
    ELSE IF c.state = "city" THEN "type_city"
    ELSE IF c.state = "weight" THEN "type_weight"
    ELSE IF c.state = "volume" THEN "type_volume"
    ELSE IF c.state = "phone" /\ ev.contact # "" THEN "share_phone_contact"
    ELSE IF c.state = "phone" THEN "type_phone"
    ELSE IF c.state = "comment" THEN "type_comment"
    ELSE "fallback_forward"

\* Callback routing by the prefix of the data alone, with no state filter
RouteCallback_by_prefix(c, ev) ==
    IF HasPrefix(ev, "service") THEN "pick_service"
    ELSE IF HasPrefix(ev, "cargo") THEN "pick_cargo"
    ELSE IF HasPrefix(ev, "country") THEN "pick_country"
    ELSE IF HasPrefix(ev, "invoice") THEN "pick_invoice"
    ELSE IF HasPrefix(ev, "curgency") THEN "pick_customs_urgency"
    ELSE IF HasPrefix(ev, "city") THEN "pick_city"
    ELSE IF HasPrefix(ev, "weight") THEN "pick_weight"
    ELSE IF HasPrefix(ev, "volume") THEN "pick_volume"
    ELSE IF HasPrefix(ev, "urgency") THEN "pick_urgency"
    ELSE IF HasPrefix(ev, "terms") THEN "pick_incoterms"
    ELSE IF ev.data = <<"skip_comment">> THEN "skip_comment"
    ELSE IF HasPrefix(ev, "back") THEN "handle_back"
    ELSE IF ev.data \in {<<"action", "docs">>, <<"action", "details">>, <<"action", "call">>}
         THEN "action_info"
    ELSE IF ev.data = <<"action", "restart">> THEN "action_restart"
    ELSE "expired_callback"

RouteCallback(c, ev) ==
    IF c.state = "service" /\ HasPrefix(ev, "service") THEN "pick_service"
    ELSE IF c.state = "customs_cargo" /\ HasPrefix(ev, "cargo") THEN "pick_customs_cargo"
    ELSE IF c.state = "customs_country" /\ HasPrefix(ev, "country") THEN "pick_customs_country"
    ELSE IF c.state = "invoice_value" /\ HasPrefix(ev, "invoice") THEN "pick_invoice"
    ELSE IF c.state = "customs_urgency" /\ HasPrefix(ev, "curgency") THEN "pick_customs_urgency"
    ELSE IF c.state = "country" /\ HasPrefix(ev, "country") THEN "pick_country"
    ELSE IF c.state = "city" /\ HasPrefix(ev, "city") THEN "pick_city"
    ELSE IF c.state = "cargo_type" /\ HasPrefix(ev, "cargo") THEN "pick_cargo"
    ELSE IF c.state = "weight" /\ HasPrefix(ev, "weight") THEN "pick_weight"
    ELSE IF c.state = "volume" /\ HasPrefix(ev, "volume") THEN "pick_volume"
    ELSE IF c.state = "urgency" /\ HasPrefix(ev, "urgency") THEN "pick_urgency"
    ELSE IF c.state = "incoterms" /\ HasPrefix(ev, "terms") THEN "pick_incoterms"
    ELSE IF c.state = "comment" /\ ev.data = <<"skip_comment">> THEN "skip_comment"
    ELSE IF HasPrefix(ev, "back") THEN "handle_back"
    ELSE IF ev.data \in {<<"action", "docs">>, <<"action", "details">>, <<"action", "call">>}
         THEN "action_info"
    ELSE IF ev.data = <<"action", "restart">> THEN "action_restart"
    ELSE "expired_callback"

Route(c, ev) == IF ev.kind = "message" THEN RouteMessage(c, ev) ELSE RouteCallback(c, ev)

RunHandler(h, c, ev, rows, env, p) ==
    CASE h = "cmd_start"            -> cmd_start(c, ev, rows, env)
      [] h = "text_start"           -> cmd_start(c, ev, rows, env)
      [] h = "pick_service"         -> pick_service(c, ev, rows, env)
      [] h = "pick_customs_cargo"   -> pick_customs_cargo(c, ev, rows, env)
      [] h = "pick_customs_country" -> pick_customs_country(c, ev, rows, env)
      [] h = "type_customs_country" -> type_customs_country(c, ev, rows, env)
      [] h = "pick_invoice"         -> pick_invoice(c, ev, rows, env)
      [] h = "type_invoice"         -> type_invoice(c, ev, rows, env)
      [] h = "pick_customs_urgency" -> pick_customs_urgency(c, ev, rows, env)
      [] h = "pick_country"         -> pick_country(c, ev, rows, env)
      [] h = "type_other_country"   -> type_other_country(c, ev, rows, env)
      [] h = "pick_city"            -> pick_city(c, ev, rows, env)
      [] h = "type_city"            -> type_city(c, ev, rows, env)
      [] h = "pick_cargo"           -> pick_cargo(c, ev, rows, env)
      [] h = "pick_weight"          -> pick_weight(c, ev, rows, env)
      [] h = "type_weight"          -> type_weight(c, ev, rows, env)
      [] h = "pick_volume"          -> pick_volume(c, ev, rows, env)
      [] h = "type_volume"          -> type_volume(c, ev, rows, env)
      [] h = "pick_urgency"         -> pick_urgency(c, ev, rows, env)
      [] h = "pick_incoterms"       -> pick_incoterms(c, ev, rows, env)
      [] h = "share_phone_contact"  -> share_phone_contact(c, ev, rows, env)
      [] h = "type_phone"           -> type_phone(c, ev, rows, env)
      [] h = "skip_comment"         -> skip_comment(c, ev, rows, env, p)
      [] h = "type_comment"         -> type_comment(c, ev, rows, env, p)
      [] h = "handle_back"          -> handle_back(c, ev, rows, env)
      [] h = "action_info"          -> action_info(c, ev, rows, env)
      [] h = "action_restart"       -> action_restart(c, ev, rows, env)
      [] h = "expired_callback"     -> expired_callback(c, ev, rows, env)
      [] OTHER                      -> fallback_forward(c, ev, rows, env)

\* Dispatcher.feed_update for one event of a user whose conversation is c
Handle(c, ev, rows, env, p) ==
    LET h == Route(c, ev)
        r == RunHandler(h, c, ev, rows, env, p)
    IN  [conv |-> r.conv,
         rows |-> r.rows,
         out  |-> DictMerge(DictMerge(OutBase,
                      [handler |-> h, event |-> ev, had_state |-> c.state # "none",
                       username |-> env.username, chat_ok |-> env.send_ok]),
                      r.o)]

----------------------------------------------------------------------------
(* bot/config.py and bot/middleware.py: AntiSpamMiddleware                 *)

RATE_LIMIT_MESSAGES == 3
RATE_LIMIT_SECONDS == 5
DEDUP_SECONDS == 30
DEDUP_MIN_LENGTH == 30
CLEANUP_PERIOD == 300
STALE_WINDOWS == 10

\* The reading of time.monotonic() when the middleware is built, and the
\* last reading the model follows it to
StartClock == 299
MaxClock == 329

\* The number of rate-counted messages the model lets through to the handler
MaxHandled == 4

\* The number of seconds the model lets pass between operations on the store
StoreTicks == 1

\* event.text.startswith("/")
startswith_slash(text) == Len(text) >= 1 /\ SubSeq(text, 1, 1) = "/"

\* hashlib.md5(text.encode()).hexdigest(): distinct texts of the model have
\* distinct digests
md5(text) == text

Restrict(f, S) == [k \in S |-> f[k]]

\* A cleanup pass that would empty both tables
cleanup_everything(r, d, t) == [rate |-> EmptyDict, dedup |-> EmptyDict]

\* _cleanup: drop the users whose timestamp list is empty or whose newest
\* timestamp is older than ten rate windows, and the users whose dedup bucket
\* is empty
cleanup(r, d, t) ==
    LET stale_rate  == {u \in DOMAIN r :
                           \/ r[u] = << >>
                           \/ t - r[u][Len(r[u])] > RATE_LIMIT_SECONDS * STALE_WINDOWS}
        stale_dedup == {u \in DOMAIN d : DOMAIN d[u] = {}}
    IN  [rate |-> Restrict(r, DOMAIN r \ stale_rate),
         dedup |-> Restrict(d, DOMAIN d \ stale_dedup)]

\* A rate window that lets nothing more through
rate_exceeded_strictly(timestamps) == Len(timestamps) > RATE_LIMIT_MESSAGES

\* len(timestamps) >= settings.RATE_LIMIT_MESSAGES
rate_exceeded(timestamps) == Len(timestamps) >= RATE_LIMIT_MESSAGES

\* A bucket entry kept for one rate window only
dedup_fresh_for_rate_window(v, t) == t - v < RATE_LIMIT_SECONDS

\* now - v < settings.DEDUP_SECONDS
dedup_fresh(v, t) == t - v < DEDUP_SECONDS

\* AntiSpamMiddleware.__call__ on event ev at clock reading t, with _rate r,
\* _dedup d and _last_cleanup lc.  result "handled": the handler is called;
\* "rate" and "dedup": the event is dropped there.
antispam(ev, r, d, lc, t) ==
    LET pass == [rate |-> r, dedup |-> d, last_cleanup |-> lc, result |-> "handled"]
    IN  IF ev.kind # "message" \/ ev.uid = 0 THEN pass
        ELSE IF startswith_slash(ev.text) THEN pass
        ELSE IF ev.contact # "" THEN pass
        ELSE
        LET due == t - lc > CLEANUP_PERIOD
            cl  == IF due THEN cleanup(r, d, t) ELSE [rate |-> r, dedup |-> d]
            lc1 == IF due THEN t ELSE lc
            old == DictGet(cl.rate, ev.uid, << >>)
            InWindow(x) == x > t - RATE_LIMIT_SECONDS
            timestamps == SelectSeq(old, InWindow)
        IN  IF rate_exceeded(timestamps)
            THEN [rate |-> DictMerge(cl.rate, [k \in {ev.uid} |-> timestamps]),
                  dedup |-> cl.dedup, last_cleanup |-> lc1, result |-> "rate"]
            ELSE
            LET r1 == DictMerge(cl.rate, [k \in {ev.uid} |-> Append(timestamps, t)])
            IN  IF Len(ev.text) >= DEDUP_MIN_LENGTH
                THEN LET h  == md5(ev.text)
                         b0 == DictGet(cl.dedup, ev.uid, EmptyDict)
                         bucket == Restrict(b0, {k \in DOMAIN b0 : dedup_fresh(b0[k], t)})
                     IN  IF h \in DOMAIN bucket
                         THEN [rate |-> r1,
                               dedup |-> DictMerge(cl.dedup, [k \in {ev.uid} |-> bucket]),
                               last_cleanup |-> lc1, result |-> "dedup"]
                         ELSE [rate |-> r1,
                               dedup |-> DictMerge(cl.dedup,
                                   [k \in {ev.uid} |-> DictMerge(bucket, [k2 \in {h} |-> t])]),
                               last_cleanup |-> lc1, result |-> "handled"]
                ELSE [rate |-> r1, dedup |-> cl.dedup, last_cleanup |-> lc1,
                      result |-> "handled"]

----------------------------------------------------------------------------
(* bot/main.py, bot/handlers/common.py: the process                        *)

MAX_RETRIES == 100

\* The process after a start-up in which init_db connected: polling is on,
\* the database is reachable, no init_db is pending and no _retry_connect
\* task runs; one asyncpg pool is open and the migrations ran on it.
ProcUp ==
    [polling |-> "on", crashes |-> 0, db_up |-> TRUE, init_pending |-> FALSE,
     tasks |-> << >>, updates |-> << >>, migrated |-> TRUE, open |-> 1]

\* An error handler that would not take the error
global_error_handler_passing(raised) == [logged |-> raised, handled |-> FALSE]

\* global_error_handler, registered with @router.error(): an exception that
\* leaves a handler is delivered to it as an ErrorEvent; it logs the
\* exception and returns, which marks the error as handled.
global_error_handler(raised) == [logged |-> raised, handled |-> raised]

\* main's polling loop after an update: an error no handler took leaves
\* start_polling; polling is restarted until MAX_RETRIES is reached.
after_update(pr, crashed) ==
    IF ~crashed THEN pr
    ELSE [pr EXCEPT !.crashes = @ + 1,
                    !.polling = IF pr.crashes + 1 >= MAX_RETRIES THEN "off" ELSE "on"]

----------------------------------------------------------------------------
(* The environment of the funnel                                           *)

Users == {1001}

\* The back buttons the keyboards above carry
BackButtons ==
    {<<"back", t>> : t \in {"service", "customs_cargo", "customs_country", "invoice",
                            "country", "city", "cargo", "weight", "volume", "urgency"}}

\* Cards of earlier runs, and of runs from before a restart of the process,
\* stay in the chat with their keyboards.  The back buttons of the older
\* cards the model keeps in the chat: one of the first card, one of each
\* track
OldBackButtons == {<<"back", t>> : t \in {"service", "invoice", "weight"}}

AllButtons ==
    service_kb \cup cargo_kb \cup country_kb \cup city_kb("china") \cup weight_kb \cup volume_kb
    \cup urgency_kb \cup incoterms_kb \cup invoice_kb \cup customs_urgency_kb
    \cup skip_comment_kb \cup after_submit_kb \cup OldBackButtons

\* The keyboard of the card the step handlers show on entering each step
Keyboard(c) ==
    LET state == c.state IN
    CASE state = "service"         -> service_kb
      [] state = "customs_cargo"   -> with_back(cargo_kb, "service")
      [] state = "customs_country" -> with_back(country_kb, "customs_cargo")
      [] state = "invoice_value"   -> with_back(invoice_kb, "customs_country")
      [] state = "customs_urgency" -> with_back(customs_urgency_kb, "invoice")
      [] state = "country"         -> with_back(country_kb, "service")
      [] state = "city"            ->
             with_back(city_kb(DictGet(c.data, "country", "")), "country")
      [] state = "cargo_type"      -> with_back(cargo_kb, "city")
      [] state = "weight"          -> with_back(weight_kb, "cargo")
      [] state = "volume"          -> with_back(volume_kb, "weight")
      [] state = "urgency"         -> with_back(urgency_kb, "volume")
      [] state = "incoterms"       -> with_back(incoterms_kb, "urgency")
      [] state = "comment"         -> skip_comment_kb
      [] OTHER                     -> {}

\* What a user types at each step: an acceptable answer and a rejected one
StepTexts(state) ==
    CASE state \in {"customs_country", "country"} -> {"Vietnam", "X"}
      [] state = "city"          -> {"Hanoi", "X"}
      [] state = "weight"        -> {"500", "0"}
      [] state = "volume"        -> {"2,5", "abc"}
      [] state = "invoice_value" -> {"15000", "0"}
      [] state = "phone"         -> {"+79991234567", "123"}
      [] state = "comment"       -> {"call me"}
      [] OTHER                   -> {"hello"}

StartTexts == {"/start", "menu"}

SharedPhone == "+79991234567"

\* Outcomes of the transport and store calls of one handler run
Envs ==
    [edit_ok : BOOLEAN, send_ok : BOOLEAN, db_ok : BOOLEAN,
     admins_ok : SUBSET Admins, username : {"", "alice"}]

EnvOk ==
    [edit_ok |-> TRUE, send_ok |-> TRUE, db_ok |-> TRUE,
     admins_ok |-> Admins, username |-> "alice"]

\* The handlers that reach the store, the admins or the sender's username
Finalizers == {"skip_comment", "type_comment"}

\* The outcomes of a finalization.  Its calls are: edit the card, save the
\* lead, confirm to the user, notify the admins.  Explored are the run in
\* which every call succeeds, the runs in which one of the first three fails,
\* and the runs in which some or all admins cannot be reached.
FinalizeOutcomes ==
    {e \in Envs :
        /\ e.username = "alice"
        /\ \/ e.edit_ok /\ e.db_ok /\ e.send_ok
           \/ /\ e.admins_ok = Admins
              /\ Cardinality({k \in {"edit_ok", "db_ok", "send_ok"} : ~e[k]}) = 1}

\* The outcomes explored for the handler an event is routed to: those of a
\* finalization for a finalizer; those of the chat, the admins and the
\* sender's username for an event of a user who has no conversation; success
\* for a step.
Outcomes(c, ev) ==
    IF Route(c, ev) \in Finalizers
    THEN FinalizeOutcomes
    ELSE IF c.state = "none"
    THEN {e \in Envs : e.db_ok /\ e.edit_ok}
    ELSE {EnvOk}

\* No arrival has been decided since the clock last moved
NoVerdict == [event |-> TextMessage(0, ""), at |-> 0, result |-> ""]

\* AntiSpamMiddleware.__init__, and the clock's reading at that moment
GuardInit ==
    /\ rate = EmptyDict
    /\ dedup = EmptyDict
    /\ last_cleanup = 0
    /\ now = StartClock
    /\ verdict = NoVerdict
    /\ handled = << >>
    /\ twin = [rate |-> EmptyDict, dedup |-> EmptyDict, result |-> ""]

\* The process after start-up with the pool created.  A funnel run meets a
\* missing pool only in save_lead, where it has the outcome db_ok = FALSE.
Init ==
    /\ fsm = [u \in Users |-> clear]
    /\ pool = "pool"
    /\ leads = << >>
    /\ out = OutBase
    /\ GuardInit
    /\ proc = ProcUp

\* One inbound event of user u is handled to its end
\* A dispatcher that would keep one conversation for all users
Deliver_one_conversation(u, ev, env) ==
    LET r == Handle(fsm[u], ev, leads, env, pool)
        e == global_error_handler(r.out.raised)
    IN  /\ proc.polling = "on"
        /\ fsm' = [k \in DOMAIN fsm |-> r.conv]
        /\ leads' = r.rows
        /\ out' = [r.out EXCEPT !.logged = e.logged]
        /\ proc' = after_update(proc, r.out.raised /\ ~e.handled)
        /\ UNCHANGED <<pool, guardVars>>

Deliver(u, ev, env) ==
    LET r == Handle(fsm[u], ev, leads, env, pool)
        e == global_error_handler(r.out.raised)
    IN  /\ proc.polling = "on"
        /\ fsm' = [fsm EXCEPT ![u] = r.conv]
        /\ leads' = r.rows
        /\ out' = [r.out EXCEPT !.logged = e.logged]
        /\ proc' = after_update(proc, r.out.raised /\ ~e.handled)
        /\ UNCHANGED <<pool, guardVars>>

\* A press of a button of the current card or, by a user who has no
\* conversation, of any button of an older card.
PressButton(u) ==
    \E b \in (IF fsm[u].state = "none" THEN AllButtons ELSE Keyboard(fsm[u])) :
        \E env \in Outcomes(fsm[u], Callback(u, b)) : Deliver(u, Callback(u, b), env)

SendText(u) ==
    \E t \in StepTexts(fsm[u].state) \cup StartTexts :
        \E env \in Outcomes(fsm[u], TextMessage(u, t)) : Deliver(u, TextMessage(u, t), env)

ShareContact(u) ==
    \E env \in Outcomes(fsm[u], ContactMessage(u, SharedPhone)) :
        Deliver(u, ContactMessage(u, SharedPhone), env)

\* The process restarts: MemoryStorage starts empty, the chats keep their
\* messages.
Restart ==
    /\ \E u \in Users : fsm[u] # clear
    /\ fsm' = [u \in Users |-> clear]
    /\ out' = OutBase
    /\ UNCHANGED <<pool, leads, guardVars, proc>>

Next ==
    \/ \E u \in Users : PressButton(u) \/ SendText(u) \/ ShareContact(u)
    \/ Restart

Spec == Init /\ [][Next]_vars

\* The same funnel when the user presses only the buttons of the current
\* card and every transport call succeeds.
PressOffered(u) ==
    \E b \in Keyboard(fsm[u]) : Deliver(u, Callback(u, b), EnvOk)

\* Further texts a user may type at a step
OddTexts(state) ==
    CASE state = "weight"        -> {"nan", "-5"}
      [] state = "invoice_value" -> {"nan"}
      [] state = "phone"         -> {"abcdef"}
      [] OTHER                   -> {}

TypeAnswer(u) ==
    \E t \in StepTexts(fsm[u].state) \cup OddTexts(fsm[u].state) \cup StartTexts :
        Deliver(u, TextMessage(u, t), EnvOk)

ShareContactAtPhone(u) ==
    /\ fsm[u].state = "phone"
    /\ Deliver(u, ContactMessage(u, SharedPhone), EnvOk)

NextRun ==
    \E u \in Users : PressOffered(u) \/ TypeAnswer(u) \/ ShareContactAtPhone(u)

SpecRun == Init /\ [][NextRun]_vars

----------------------------------------------------------------------------
(* Properties of the funnel                                                *)

\* The user whose event was handled last, and their conversation now
LastUser == out.event.uid

LastConv == fsm[LastUser]

\* The answers of a conversation: its data without the card bookkeeping
AnswerFields(d) == DOMAIN d \ {"card_id", "card_message_id"}

\* _finish_order was entered by the last event
Finalized == out.handler \in Finalizers /\ DOMAIN out.lead # {}

\* C1: after a comment or a skip at the comment step has been handled, the
\* user's state is absent, whatever the outcome of the finalization.
C1_StateAbsentAfterFinalization ==
    out.handler \in Finalizers => LastConv.state = "none"

\* C2: when save_lead fails during finalization, the user still receives the
\* confirmation and every staff recipient is sent the lead summary.
C2_SaveFailureStillNotifies ==
    (Finalized /\ ~out.stored /\ out.chat_ok) =>
        (out.confirmed /\ out.attempted = Admins)

\* The callbacks of the funnel's own keyboards
FunnelButtons == AllButtons \ after_submit_kb

\* C3: a funnel callback from a user who has no state is answered with the
\* session-expired notice and leaves the user at service selection with no
\* answers (the messages to the user's chat being deliverable).
C3_NoStateCallbackExpires ==
    (/\ out.event.kind = "callback"
     /\ out.event.data \in FunnelButtons
     /\ ~out.had_state
     /\ out.chat_ok) =>
        (/\ out.notice = "expired"
         /\ LastConv.state = "service"
         /\ AnswerFields(LastConv.data) = {})

\* C4: a message of a user who has no state that no other handler takes is
\* sent, after a header with the sender's id, name and username, to every
\* staff recipient whether or not an earlier send failed; the user is told it
\* was received and their state stays absent.
C4_FreeTextForwarded ==
    (out.handler = "fallback_forward" /\ ~out.had_state) =>
        (/\ out.attempted = Admins
         /\ out.delivered \subseteq out.attempted
         /\ out.header = [name |-> full_name(LastUser), username |-> out.username,
                          id |-> LastUser]
         /\ (out.chat_ok => out.notice = "received" /\ ~out.raised)
         /\ LastConv.state = "none")

\* The send to the first recipient failed, the second recipient got the text
C4_Witness ==
    /\ out.handler = "fallback_forward"
    /\ ~out.had_state
    /\ out.event.text = "hello"
    /\ out.delivered = {admin_ids[2]}
    /\ out.notice = "received"

\* The fields only the steps of one track store
CustomsOnly == {"invoice_value", "invoice_value_num", "customs_urgency"}

DeliveryOnly == {"city_from", "weight_kg", "volume_m3", "urgency", "incoterms"}

\* C5: the accumulated answers hold no field that only the other track's
\* steps store, whatever forward steps, back presses and returns to service
\* selection led to them.
C5_NoFieldOfOtherTrack ==
    \A u \in Users :
        LET d == fsm[u].data
            service == DictGet(d, "service", "")
        IN  /\ service = "delivery" => DOMAIN d \cap CustomsOnly = {}
            /\ service = "customs" => DOMAIN d \cap DeliveryOnly = {}

\* The handlers that accept the answer of a step
StepHandlers ==
    {"pick_service", "pick_customs_cargo", "pick_customs_country", "type_customs_country",
     "pick_invoice", "type_invoice", "pick_country", "type_other_country", "pick_city",
     "type_city", "pick_cargo", "pick_weight", "type_weight", "pick_volume", "type_volume",
     "pick_urgency"}

\* The last event was an answer that advanced the user to the next step
AnswerAccepted == out.handler \in StepHandlers /\ out.notice = "card"

\* The conversation after the user goes back with button b and gives the
\* last answer once more
BackAndAgain(b) ==
    LET back  == Handle(LastConv, Callback(LastUser, b), leads, EnvOk, pool)
        again == Handle(back.conv, out.event, back.rows, EnvOk, pool)
    IN  again.conv

\* C6: going back from the step an answer led to and giving the same answer
\* again restores the step and every stored field, invoice_value and
\* invoice_value_num included.
C6_BackAndResubmitIsIdentity ==
    AnswerAccepted =>
        \A b \in Keyboard(LastConv) \cap BackButtons : BackAndAgain(b) = LastConv

\* A typed invoice value was accepted and its card offers the way back
C6_Witness ==
    /\ AnswerAccepted
    /\ out.handler = "type_invoice"
    /\ LastConv.state = "customs_urgency"
    /\ LastConv.data["invoice_value_num"] = 150000
    /\ <<"back", "invoice">> \in Keyboard(LastConv)

\* C7: a delivery run with a preset weight w and a preset volume v whose
\* comment is skipped gives the store a record with weight_kg
\* WEIGHT_TO_FLOAT[w], volume_m3 VOLUME_TO_FLOAT[v], service_type delivery and
\* the entered fields, and the record is stored with status NEW.
C7_PresetRunIsStored ==
    LET a == out.answers
        w == DictGet(a, "weight_kg", "")
        v == DictGet(a, "volume_m3", "")
    IN  (/\ out.handler = "skip_comment"
         /\ pool = "pool"
         /\ DictGet(a, "service", "") = "delivery"
         /\ w \in DOMAIN WEIGHT_TO_FLOAT
         /\ v \in DOMAIN VOLUME_TO_FLOAT) =>
            (/\ out.lead["weight_kg"] = WEIGHT_TO_FLOAT[w]
             /\ out.lead["volume_m3"] = VOLUME_TO_FLOAT[v]
             /\ out.lead["service_type"] = "delivery"
             /\ out.lead["country"] = a["country"]
             /\ out.lead["city_from"] = a["city_from"]
             /\ out.lead["phone"] = a["phone"]
             /\ out.stored
             /\ leads[out.lead_id]["status"] = "NEW"
             /\ leads[out.lead_id]["weight_kg"] = WEIGHT_TO_FLOAT[w])

----------------------------------------------------------------------------
(* bot/db.py, bot/handlers/admin.py, bot/handlers/funnel.py: the status   *)
(* of a stored lead                                                        *)

VALID_STATUSES == {"NEW", "IN_PROGRESS", "WON", "LOST"}

LowerCase == "abcdefghijklmnopqrstuvwxyz"

UpperCase == "ABCDEFGHIJKLMNOPQRSTUVWXYZ"

DecimalDigits == "0123456789"

\* Position of the one-character string c in s, 0 when it is not there
IndexIn(s, c) ==
    IF \E i \in 1..Len(s) : SubSeq(s, i, i) = c
    THEN CHOOSE i \in 1..Len(s) : SubSeq(s, i, i) = c
    ELSE 0

RECURSIVE SplitFrom(_, _, _)
\* The blank-separated words of s from position i on; start is where the
\* word being read began, 0 between words
SplitFrom(s, i, start) ==
    IF i > Len(s)
    THEN IF start = 0 THEN << >> ELSE <<SubSeq(s, start, Len(s))>>
    ELSE IF SubSeq(s, i, i) = " "
         THEN IF start = 0 THEN SplitFrom(s, i + 1, 0)
              ELSE <<SubSeq(s, start, i - 1)>> \o SplitFrom(s, i + 1, 0)
         ELSE SplitFrom(s, i + 1, IF start = 0 THEN i ELSE start)

\* str.split()
split(s) == SplitFrom(s, 1, 0)

\* str.isdigit()
isdigit(s) ==
    Len(s) > 0 /\ \A i \in 1..Len(s) : IndexIn(DecimalDigits, SubSeq(s, i, i)) # 0

RECURSIVE int(_)
\* int(s) of a string of digits
int(s) ==
    IF Len(s) = 0 THEN 0
    ELSE 10 * int(SubSeq(s, 1, Len(s) - 1))
         + IndexIn(DecimalDigits, SubSeq(s, Len(s), Len(s))) - 1

RECURSIVE upper(_)
\* str.upper()
upper(s) ==
    IF Len(s) = 0 THEN ""
    ELSE LET c == SubSeq(s, 1, 1)
             i == IndexIn(LowerCase, c)
         IN  (IF i = 0 THEN c ELSE SubSeq(UpperCase, i, i))
             \o upper(SubSeq(s, 2, Len(s)))

\* A statement that would set the status of every row of the table
PgUpdateStatusOfEveryRow(status, lead_id, rows, t) ==
    [count |-> Cardinality({i \in DOMAIN rows : rows[i]["id"] = lead_id}),
     rows  |-> [i \in DOMAIN rows |->
                   [rows[i] EXCEPT !["status"] = status, !["updated_at"] = t]]]

\* conn.execute of UPDATE leads SET status = $1, updated_at = NOW()
\* WHERE id = $2, at time t: every row with that id gets the status and the
\* time of the statement; count is the number in the command tag.
PgUpdateStatus(status, lead_id, rows, t) ==
    [count |-> Cardinality({i \in DOMAIN rows : rows[i]["id"] = lead_id}),
     rows  |-> [i \in DOMAIN rows |->
                   IF rows[i]["id"] = lead_id
                   THEN [rows[i] EXCEPT !["status"] = status, !["updated_at"] = t]
                   ELSE rows[i]]]

\* update_lead_status: raised = TRUE is an exception leaving it (no pool, or
\* no connection acquired); otherwise ok is result == "UPDATE 1".
update_lead_status(lead_id, status, p, rows, db_ok, t) ==
    IF ~check_pool(p) \/ ~db_ok
    THEN [raised |-> TRUE, ok |-> FALSE, rows |-> rows]
    ELSE LET u == PgUpdateStatus(status, lead_id, rows, t)
         IN  [raised |-> FALSE, ok |-> u.count = 1, rows |-> u.rows]

\* What a staff handler reports of its call of update_lead_status
StatusCall(lead_id, status, r) ==
    [called |-> TRUE, target |-> lead_id, status |-> status,
     raised |-> r.raised, ok |-> r.ok,
     notice |-> IF r.raised THEN "" ELSE IF r.ok THEN "status_set" ELSE "not_found"]

\* A /status handler that would pass any word on as the status
cmd_status_unvalidated(uid, text, p, rows, db_ok, t) ==
    LET args == split(text)
    IN  IF uid \notin Admins THEN [rows |-> rows, o |-> [notice |-> ""]]
        ELSE IF Len(args) < 3 THEN [rows |-> rows, o |-> [notice |-> "usage"]]
        ELSE IF ~isdigit(args[2]) THEN [rows |-> rows, o |-> [notice |-> "id_not_number"]]
        ELSE LET r == update_lead_status(int(args[2]), upper(args[3]), p, rows, db_ok, t)
             IN  [rows |-> r.rows, o |-> StatusCall(int(args[2]), upper(args[3]), r)]

\* cmd_status: /status <id> <STATUS> of a message
cmd_status(uid, text, p, rows, db_ok, t) ==
    LET args == split(text)
    IN  IF uid \notin Admins THEN [rows |-> rows, o |-> [notice |-> ""]]
        ELSE IF Len(args) < 3 THEN [rows |-> rows, o |-> [notice |-> "usage"]]
        ELSE IF ~isdigit(args[2]) THEN [rows |-> rows, o |-> [notice |-> "id_not_number"]]
        ELSE LET lead_id == int(args[2])
                 status  == upper(args[3])
             IN  IF status \notin VALID_STATUSES
                 THEN [rows |-> rows, o |-> [notice |-> "bad_status"]]
                 ELSE LET r == update_lead_status(lead_id, status, p, rows, db_ok, t)
                      IN  [rows |-> r.rows, o |-> StatusCall(lead_id, status, r)]

\* adm_take_progress: the button adm:progress:<id> under a notification
adm_take_progress(uid, data, p, rows, db_ok, t) ==
    IF uid \notin Admins THEN [rows |-> rows, o |-> [notice |-> "no_access"]]
    ELSE LET lead_id == int(data[3])
             r == update_lead_status(lead_id, "IN_PROGRESS", p, rows, db_ok, t)
             c == StatusCall(lead_id, "IN_PROGRESS", r)
         IN  [rows |-> r.rows,
              o |-> [c EXCEPT !.notice = IF r.ok THEN "taken" ELSE ""]]

\* The positions of rows with the newest first (ORDER BY created_at DESC)
NewestFirst(rows) ==
    CHOOSE s \in [1..Len(rows) -> DOMAIN rows] :
        /\ \A i, j \in 1..Len(rows) : i # j => s[i] # s[j]
        /\ \A i, j \in 1..Len(rows) :
              i < j => rows[s[i]]["created_at"] >= rows[s[j]]["created_at"]

\* The reading operations: raised = TRUE is the exception of _check_pool or
\* of acquire; rows is what the SELECT returns.
get_leads(limit, p, rows, db_ok) ==
    IF ~check_pool(p) \/ ~db_ok
    THEN [raised |-> TRUE, rows |-> << >>]
    ELSE LET s == NewestFirst(rows)
             n == IF limit < Len(rows) THEN limit ELSE Len(rows)
         IN  [raised |-> FALSE, rows |-> [i \in 1..n |-> rows[s[i]]]]

get_lead(lead_id, p, rows, db_ok) ==
    IF ~check_pool(p) \/ ~db_ok
    THEN [raised |-> TRUE, rows |-> << >>]
    ELSE [raised |-> FALSE,
          rows |-> SelectSeq(rows, LAMBDA r : r["id"] = lead_id)]

export_all_leads(p, rows, db_ok) ==
    IF ~check_pool(p) \/ ~db_ok
    THEN [raised |-> TRUE, rows |-> << >>]
    ELSE LET s == NewestFirst(rows)
         IN  [raised |-> FALSE, rows |-> [i \in 1..Len(rows) |-> rows[s[i]]]]

\* The ids of the leads whose data a reply carries
IdsOf(found) == {found[i]["id"] : i \in DOMAIN found}

\* What a staff handler reports of a read: the exception, or the reply and
\* the leads it shows to the chat the event came from
ReadReply(r, empty, shown) ==
    IF r.raised THEN [raised |-> TRUE]
    ELSE IF Len(r.rows) = 0 THEN [notice |-> empty]
    ELSE [notice |-> shown, disclosed |-> IdsOf(r.rows)]

\* cmd_leads: /leads [N]
cmd_leads(uid, text, p, rows, db_ok) ==
    LET args  == split(text)
        limit == IF Len(args) > 1 /\ isdigit(args[2]) THEN int(args[2]) ELSE 10
    IN  IF uid \notin Admins THEN [notice |-> ""]
        ELSE ReadReply(get_leads(limit, p, rows, db_ok), "no_leads", "lead_list")

\* cmd_lead: /lead <id>
cmd_lead(uid, text, p, rows, db_ok) ==
    LET args == split(text)
    IN  IF uid \notin Admins THEN [notice |-> ""]
        ELSE IF Len(args) < 2 \/ ~isdigit(args[2]) THEN [notice |-> "usage"]
        ELSE ReadReply(get_lead(int(args[2]), p, rows, db_ok), "not_found", "lead_card")

\* cmd_export: /export
cmd_export(uid, text, p, rows, db_ok) ==
    IF uid \notin Admins THEN [notice |-> ""]
    ELSE ReadReply(export_all_leads(p, rows, db_ok), "no_data", "csv")

\* A reveal-phone button that would answer whoever presses it
adm_show_phone_to_anyone(uid, data, p, rows, db_ok) ==
    LET r == get_lead(int(data[3]), p, rows, db_ok)
    IN  ReadReply(r, "", "phone")

\* adm_show_phone: the button adm:call:<id> under a notification
adm_show_phone(uid, data, p, rows, db_ok) ==
    IF uid \notin Admins THEN [notice |-> "no_access"]
    ELSE LET r == get_lead(int(data[3]), p, rows, db_ok)
         IN  ReadReply(r, "", "phone")

----------------------------------------------------------------------------
(* The lead store on its own                                               *)

\* Answers a finished run may have accumulated
SampleAnswers ==
    {[service |-> s, country |-> c, city_from |-> "Guangzhou", cargo_type |-> "electronics",
      weight_kg |-> w, volume_m3 |-> v, urgency |-> "standard", incoterms |-> "exw",
      invoice_value |-> "inv_5000", invoice_value_num |-> INVOICE_TO_FLOAT["inv_5000"],
      customs_urgency |-> "normal", phone |-> SharedPhone, comment |-> m] :
        s \in {"customs", "delivery"}, c \in {"china"},
        w \in {"w_500", "500.0"}, v \in {"v_5", "2.5"}, m \in {"", "call me"}}

SampleLeads ==
    {lead_data_of(a, TextMessage(u, a["comment"]), e) :
        a \in SampleAnswers, u \in Users, e \in {EnvOk}}

\* save_lead(data) is called; acquired is whether a live pool hands out a
\* connection
SaveLead ==
    \E data \in SampleLeads, acquired \in BOOLEAN :
        LET s == save_lead(data, pool, leads, acquired)
        IN  /\ leads' = s.rows
            /\ out' = DictMerge(OutBase,
                          [handler |-> "save_lead", lead |-> data, raised |-> ~s.ok,
                           stored |-> s.ok, lead_id |-> s.id,
                           store_ok |-> check_pool(pool) /\ acquired])
            /\ UNCHANGED <<fsm, pool, guardVars, proc>>

\* init_db / _retry_connect: the pool is created, or creating it fails
InitDb ==
    /\ pool = "none"
    /\ \E connected \in BOOLEAN : pool' = IF connected THEN "pool" ELSE "none"
    /\ out' = DictMerge(OutBase, [handler |-> "init_db"])
    /\ UNCHANGED <<fsm, leads, guardVars, proc>>

\* close_db, and _db_health_loop dropping a dead pool
CloseDb ==
    /\ pool = "pool"
    /\ pool' = "none"
    /\ out' = DictMerge(OutBase, [handler |-> "close_db"])
    /\ UNCHANGED <<fsm, leads, guardVars, proc>>

\* The columns of a row of the leads table: those of the INSERT, the
\* serial id and the two timestamps
LEAD_COLUMNS ==
    {INSERT_COLUMNS[i] : i \in DOMAIN INSERT_COLUMNS}
        \cup {"id", "created_at", "updated_at"}

\* A row of the table holding the lead data, created at time t
StoredRow(id, data, status, t) ==
    [k \in LEAD_COLUMNS |->
        CASE k = "id" -> id
          [] k = "status" -> status
          [] k \in {"created_at", "updated_at"} -> t
          [] OTHER -> save_lead_args(data)[CHOOSE i \in DOMAIN INSERT_COLUMNS :
                                              INSERT_COLUMNS[i] = k]]

CustomsLead ==
    lead_data_of([service |-> "customs", country |-> "china",
                  cargo_type |-> "electronics", invoice_value |-> "inv_5000",
                  invoice_value_num |-> INVOICE_TO_FLOAT["inv_5000"],
                  customs_urgency |-> "normal", phone |-> SharedPhone,
                  comment |-> ""],
                 TextMessage(1001, ""), EnvOk)

DeliveryLead ==
    lead_data_of([service |-> "delivery", country |-> "china",
                  city_from |-> "Guangzhou", cargo_type |-> "electronics",
                  weight_kg |-> "w_500", volume_m3 |-> "v_5",
                  urgency |-> "standard", incoterms |-> "exw",
                  phone |-> SharedPhone, comment |-> "call me"],
                 TextMessage(1001, "call me"), EnvOk)

\* The table as the process may find it: the database outlives the process,
\* so leads stored before it started are there.
StoredTables ==
    {<< >>}
      \cup {<<StoredRow(1, CustomsLead, s, StartClock - 2)>> : s \in {"NEW", "WON"}}
      \cup {<<StoredRow(1, CustomsLead, s, StartClock - 2),
              StoredRow(2, DeliveryLead, "NEW", StartClock - 1)>> : s \in {"NEW", "WON"}}

InitStore ==
    /\ fsm = [u \in Users |-> clear]
    /\ pool \in {"none", "pool"}
    /\ leads \in StoredTables
    /\ out = OutBase
    /\ GuardInit
    /\ proc = ProcUp

\* Who writes to the bot in the model of the store: a customer and one of
\* the staff
Senders == Users \cup {admin_ids[1]}

\* Texts of the /status command
StatusCommands ==
    {"/status", "/status 1 lost", "/status 2 in_progress",
     "/status 3 WON", "/status x WON", "/status 1 done"}

\* Lead ids on the buttons under notifications
ProgressButtons == {<<"adm", "progress", "1">>, <<"adm", "progress", "3">>}

\* A /status message is handled by cmd_status
CmdStatus ==
    \E u \in Senders, text \in StatusCommands, acquired \in BOOLEAN :
        LET r == cmd_status(u, text, pool, leads, acquired, now)
        IN  /\ leads' = r.rows
            /\ out' = DictMerge(OutBase,
                          DictMerge([handler |-> "cmd_status",
                                     store_ok |-> check_pool(pool) /\ acquired,
                                     event |-> TextMessage(u, text),
                                     before |-> leads, at |-> now], r.o))
            /\ UNCHANGED <<fsm, pool, guardVars, proc>>

\* A press of adm:progress:<id> is handled by adm_take_progress
AdmTakeProgress ==
    \E u \in Senders, data \in ProgressButtons, acquired \in BOOLEAN :
        LET r == adm_take_progress(u, data, pool, leads, acquired, now)
        IN  /\ leads' = r.rows
            /\ out' = DictMerge(OutBase,
                          DictMerge([handler |-> "adm_take_progress",
                                     store_ok |-> check_pool(pool) /\ acquired,
                                     event |-> Callback(u, data),
                                     before |-> leads, at |-> now], r.o))
            /\ UNCHANGED <<fsm, pool, guardVars, proc>>

\* Time passes between two operations on the store
StoreTick ==
    /\ now < StartClock + StoreTicks
    /\ now' = now + 1
    /\ out' = OutBase
    /\ UNCHANGED <<fsm, pool, leads, rate, dedup, last_cleanup, verdict, handled, twin, proc>>

\* Texts of the reading commands
ReadCommands == {"/leads", "/leads 1", "/lead", "/lead 2", "/lead 3", "/export"}

\* Lead ids on the reveal-phone buttons under notifications
CallButtons == {<<"adm", "call", "1">>, <<"adm", "call", "3">>}

\* The handler of a reading command, by the command's name
ReadHandler(text) ==
    LET name == split(text)[1]
    IN  IF name = "/leads" THEN "cmd_leads"
        ELSE IF name = "/lead" THEN "cmd_lead"
        ELSE "cmd_export"

\* A /leads, /lead or /export message is handled
CmdRead ==
    \E u \in Senders, text \in ReadCommands, acquired \in BOOLEAN :
        LET h == ReadHandler(text)
            o == CASE h = "cmd_leads" -> cmd_leads(u, text, pool, leads, acquired)
                   [] h = "cmd_lead"  -> cmd_lead(u, text, pool, leads, acquired)
                   [] OTHER           -> cmd_export(u, text, pool, leads, acquired)
        IN  /\ out' = DictMerge(OutBase,
                          DictMerge([handler |-> h,
                                     store_ok |-> check_pool(pool) /\ acquired,
                                     event |-> TextMessage(u, text),
                                     before |-> leads, at |-> now], o))
            /\ UNCHANGED <<fsm, pool, leads, guardVars, proc>>

\* A press of adm:call:<id> is handled by adm_show_phone
AdmShowPhone ==
    \E u \in Senders, data \in CallButtons, acquired \in BOOLEAN :
        /\ out' = DictMerge(OutBase,
                      DictMerge([handler |-> "adm_show_phone",
                                 store_ok |-> check_pool(pool) /\ acquired,
                                 event |-> Callback(u, data),
                                 before |-> leads, at |-> now],
                                adm_show_phone(u, data, pool, leads, acquired)))
        /\ UNCHANGED <<fsm, pool, leads, guardVars, proc>>

NextStore ==
    \/ SaveLead \/ InitDb \/ CloseDb
    \/ CmdStatus \/ AdmTakeProgress \/ CmdRead \/ AdmShowPhone
    \/ StoreTick

SpecStore == InitStore /\ [][NextStore]_vars

\* C8: when the store is available, save_lead inserts exactly one row that
\* carries the lead's values and status NEW, and returns that row's id.
C8_SaveLeadInsertsOneRow ==
    (out.handler = "save_lead" /\ out.store_ok) =>
        (/\ out.stored
         /\ out.lead_id = Len(leads)
         /\ leads[out.lead_id]["status"] = "NEW"
         /\ leads[out.lead_id]["telegram_id"] = out.lead["telegram_id"]
         /\ leads[out.lead_id]["phone"] = out.lead["phone"]
         /\ leads[out.lead_id]["service_type"] = out.lead["service_type"])

----------------------------------------------------------------------------
(* The guard on its own                                                    *)

\* The messages that arrive: a command, a short text (a start phrase of
\* text_start), a text of exactly the minimum length of deduplication, a
\* shared contact, and a message that has no from_user.
LongText == "When will my cargo be shipped?"

GuardMessages(u) ==
    {TextMessage(u, "/start"), TextMessage(u, "menu"), TextMessage(u, LongText),
     ContactMessage(u, SharedPhone), TextMessage(0, LongText)}

\* The seconds by which the clock moves between two arrivals
Ticks == {4, 26}

\* The messages the rate limiter counts
Counted(ev) == ev.uid # 0 /\ ~startswith_slash(ev.text) /\ ev.contact = ""

\* A message of user u reaches dp.message.middleware; handled records the
\* counted messages the handler was called for.
Arrive(u) ==
    \E ev \in GuardMessages(u) :
        LET g == antispam(ev, rate, dedup, last_cleanup, now)
        IN  /\ (g.result = "handled" /\ Counted(ev)) => Len(handled) < MaxHandled
            /\ rate' = g.rate
            /\ dedup' = g.dedup
            /\ last_cleanup' = g.last_cleanup
            /\ verdict' = [event |-> ev, at |-> now, result |-> g.result]
            /\ handled' = IF g.result = "handled" /\ Counted(ev)
                          THEN Append(handled, [event |-> ev, at |-> now])
                          ELSE handled
            /\ UNCHANGED <<now, twin, funnelVars, proc>>

Tick ==
    \E d \in Ticks :
        /\ now + d <= MaxClock
        /\ now' = now + d
        /\ verdict' = NoVerdict
        /\ UNCHANGED <<rate, dedup, last_cleanup, handled, twin, funnelVars, proc>>

NextGuard == (\E u \in Users : Arrive(u)) \/ Tick

InitGuard == Init /\ pool = "pool"

SpecGuard == InitGuard /\ [][NextGuard]_vars

\* The messages handled before the last arrival
Prior ==
    IF verdict.result = "handled" /\ Counted(verdict.event)
    THEN SubSeq(handled, 1, Len(handled) - 1)
    ELSE handled

\* The counted messages of the last sender that were handled less than a
\* rate window before the last arrival
RecentlyHandled ==
    {i \in DOMAIN Prior :
        /\ Prior[i].event.uid = verdict.event.uid
        /\ Counted(Prior[i].event)
        /\ verdict.at - Prior[i].at < RATE_LIMIT_SECONDS}

\* C9: a message that is neither a command nor a contact is dropped when 3
\* such messages of its sender were handled within the 5 seconds before it,
\* and a message whose text starts with "/" is never dropped.
C9_RateLimit ==
    verdict.result # "" =>
        /\ (Counted(verdict.event) /\ Cardinality(RecentlyHandled) >= RATE_LIMIT_MESSAGES)
               => verdict.result # "handled"
        /\ startswith_slash(verdict.event.text) => verdict.result = "handled"

\* A fourth text within the window is dropped by the rate limit
C9_Witness ==
    /\ verdict.result = "rate"
    /\ Counted(verdict.event)
    /\ Cardinality(RecentlyHandled) = RATE_LIMIT_MESSAGES

\* The last message repeats a text handled less than DEDUP_SECONDS earlier
RepeatsHandled ==
    \E i \in DOMAIN Prior :
        /\ Prior[i].event.uid = verdict.event.uid
        /\ Prior[i].event.text = verdict.event.text
        /\ verdict.at - Prior[i].at < DEDUP_SECONDS

\* C10: a text of at least 30 characters (not a command) equal to one handled
\* from the same user less than 30 seconds earlier is dropped, and a message
\* shorter than 30 characters is never dropped by deduplication.
C10_Dedup ==
    verdict.result # "" =>
        /\ (/\ Counted(verdict.event)
            /\ Len(verdict.event.text) >= DEDUP_MIN_LENGTH
            /\ RepeatsHandled) => verdict.result # "handled"
        /\ Len(verdict.event.text) < DEDUP_MIN_LENGTH => verdict.result # "dedup"

\* A repeated long text is dropped as a duplicate although the rate limit
\* would have let it through
C10_Witness ==
    /\ verdict.result = "dedup"
    /\ RepeatsHandled
    /\ Cardinality(RecentlyHandled) < RATE_LIMIT_MESSAGES

\* The messages that start the funnel (cmd_start, text_start) or share a
\* contact
StartsFunnel(ev) ==
    ev.uid # 0 /\ (ev.text = "/start" \/ ev.text \in START_WORDS \/ ev.contact # "")

\* C11: the /start command, a start phrase and a contact share always
\* reach the handlers, whatever the sender's recent message volume.
C11_StartEventsAlwaysPass ==
    (verdict.result # "" /\ StartsFunnel(verdict.event)) => verdict.result = "handled"

----------------------------------------------------------------------------
(* Validation of typed answers                                             *)

\* Typed texts that are not a number greater than zero
NotPositiveNumbers == {"0", "-5", "abc", "nan"}

\* The step each handler of a typed number belongs to
NumberStep ==
    [type_weight |-> "weight", type_volume |-> "volume", type_invoice |-> "invoice_value"]

\* C12: at the weight, volume and declared-value steps a typed text that is
\* not a number greater than zero is answered with the retry prompt, the
\* step stays, and typing it again changes nothing.
C12_InvalidNumberReprompts ==
    (out.handler \in DOMAIN NumberStep /\ out.event.text \in NotPositiveNumbers) =>
        (/\ out.notice = "retry"
         /\ LastConv.state = NumberStep[out.handler]
         /\ Handle(LastConv, out.event, leads, EnvOk, pool).conv = LastConv)

Digits == {"0", "1", "2", "3", "4", "5", "6", "7", "8", "9"}

HasDigit(text) == \E i \in 1..Len(text) : SubSeq(text, i, i) \in Digits

\* C13: a typed phone is stored, and the step advanced to comment, only if
\* it has at least six characters and contains a digit; any other typed
\* input is answered with the retry prompt and leaves the step at phone.
C13_PhoneNeedsDigit ==
    out.handler = "type_phone" =>
        IF Len(out.event.text) >= 6 /\ HasDigit(out.event.text)
        THEN LastConv.state = "comment" /\ LastConv.data["phone"] = out.event.text
        ELSE out.notice = "retry" /\ LastConv.state = "phone"

\* The custom/other options of the preset steps
CustomButtons ==
    {<<"country", "other">>, <<"city", "china", "__custom__">>,
     <<"city", "Vietnam", "__custom__">>, <<"weight", "__custom__">>,
     <<"volume", "__custom__">>, <<"invoice", "__custom__">>}

\* The conversation and effects after one more event of the last user
After(ev) == Handle(LastConv, ev, leads, EnvOk, pool)

\* C14: pressing the custom/other option of a preset step leaves the step
\* and every accumulated answer as they were, and a text typed there that is
\* rejected leaves them so too: only an accepted text advances the step.
C14_CustomOptionKeepsStep ==
    out.handler # "" =>
        /\ \A b \in Keyboard(LastConv) \cap CustomButtons :
               /\ After(Callback(LastUser, b)).conv = LastConv
               /\ After(Callback(LastUser, b)).out.notice = "ask_text"
        /\ out.notice = "ask_text" =>
               /\ out.event.data \in Keyboard(LastConv) \cap CustomButtons
               /\ \A t \in StepTexts(LastConv.state) \cup OddTexts(LastConv.state) :
                      LET r == After(TextMessage(LastUser, t))
                      IN  r.conv.state # LastConv.state => r.out.notice = "card"

\* The custom weight option was pressed with earlier answers stored
C14_Witness ==
    /\ out.notice = "ask_text"
    /\ out.event.data = <<"weight", "__custom__">>
    /\ LastConv.state = "weight"
    /\ "cargo_type" \in DOMAIN LastConv.data
    /\ "weight_kg" \notin DOMAIN LastConv.data

\* C15: at every step after service selection, the phone and the comment
\* step included, the card offers a go-back button, and pressing it moves
\* the user to the step before.
C15_BackOfferedEverywhere ==
    \A u \in Users :
        fsm[u].state \notin {"none", "service"} =>
            \E b \in Keyboard(fsm[u]) \cap (BackButtons \cup {<<"back", "incoterms">>,
                                                   <<"back", "customs_urgency">>}) :
                Handle(fsm[u], Callback(u, b), leads, EnvOk, pool).conv.state # fsm[u].state

----------------------------------------------------------------------------
(* Notification of the staff                                               *)

\* C16: in a finalization whose lead the store takes, whichever staff
\* recipients a send fails for, a send is attempted to every configured
\* recipient, the others receive the lead, and the finalization completes.
C16_NotificationIsIndependent ==
    (Finalized /\ out.store_ok /\ out.chat_ok) =>
        (/\ out.attempted = Admins
         /\ out.delivered = out.admins_up
         /\ LastConv.state = "none")

\* C17: when the lead notification fails for every staff recipient the user
\* is told the request was saved but staff may not have seen it; when it
\* reaches at least one recipient the user sees the plain confirmation.
C17_TotalFailureIsEscalated ==
    (Finalized /\ out.store_ok /\ out.chat_ok) =>
        (/\ out.admins_up = {} => out.notice = "accepted_unseen"
         /\ out.admins_up # {} => out.notice = "accepted")

----------------------------------------------------------------------------
(* The lead handed to the store                                            *)

\* The argument save_lead passes for a column of the INSERT
ArgOf(lead, column) ==
    save_lead_args(lead)[CHOOSE i \in DOMAIN INSERT_COLUMNS : INSERT_COLUMNS[i] = column]

\* C18: in every lead handed to the store, also after a switch of track in
\* mid-run, the fields of the other track have their defaults: a customs lead
\* has weight_kg 0, volume_m3 0 and empty city_from, urgency and incoterms; a
\* delivery lead has declared value 0.
C18_OtherTrackFieldsDefault ==
    Finalized =>
        /\ out.lead["service_type"] = "customs" =>
               /\ ArgOf(out.lead, "weight_kg") = 0
               /\ ArgOf(out.lead, "volume_m3") = 0
               /\ ArgOf(out.lead, "city_from") = ""
               /\ ArgOf(out.lead, "urgency") = ""
               /\ ArgOf(out.lead, "incoterms") = ""
        /\ out.lead["service_type"] = "delivery" =>
               ArgOf(out.lead, "invoice_value") = 0

\* A customs lead is finalized from answers that still hold the weight and
\* the city of an abandoned delivery run
C18_Witness ==
    /\ Finalized
    /\ out.lead["service_type"] = "customs"
    /\ "weight_kg" \in DOMAIN out.answers
    /\ "city_from" \in DOMAIN out.answers
    /\ ArgOf(out.lead, "weight_kg") = 0

----------------------------------------------------------------------------
(* The status of a stored lead                                             *)

\* The last operation was a staff handler that called update_lead_status
StatusCalled == out.handler \in {"cmd_status", "adm_take_progress"} /\ out.called

\* The rows of the table before the call that carry the id of the call
Targets == {i \in DOMAIN out.before : out.before[i]["id"] = out.target}

\* What the call did to the table when it returned: the rows with the id got
\* the status and the time of the call, no older than their last change, and
\* nothing else differs.
StatusWritten ==
    /\ DOMAIN leads = DOMAIN out.before
    /\ \A i \in DOMAIN leads :
          IF i \in Targets
          THEN /\ leads[i]["status"] = out.status
               /\ leads[i]["updated_at"] = out.at
               /\ out.at >= out.before[i]["updated_at"]
               /\ \A k \in LEAD_COLUMNS \ {"status", "updated_at"} :
                     leads[i][k] = out.before[i][k]
          ELSE leads[i] = out.before[i]

StatusesValid == \A i \in DOMAIN leads : leads[i]["status"] \in VALID_STATUSES

\* One step of the store: no row leaves the table, a row that was there
\* keeps every field but status and updated_at, and a row that is new has
\* status NEW.  save_lead is the only operation that adds rows.
LeadsKept ==
    /\ Len(leads') >= Len(leads)
    /\ \A i \in DOMAIN leads :
          \A k \in LEAD_COLUMNS \ {"status", "updated_at"} :
              leads'[i][k] = leads[i][k]
    /\ \A i \in DOMAIN leads' \ DOMAIN leads : leads'[i]["status"] = "NEW"

\* C19: over every sequence of customer and staff operations, a stored
\* lead's status is always one of NEW, IN_PROGRESS, WON, LOST, a lead that
\* enters the table enters it with status NEW, the only fields a later
\* operation changes are status and updated_at, and no operation removes a
\* lead.
C19_LeadLifecycle == []StatusesValid /\ [][LeadsKept]_vars

C19_Witness ==
    /\ StatusCalled
    /\ out.ok
    /\ \E i \in Targets :
          /\ out.before[i]["status"] = "WON"
          /\ leads[i]["status"] = "IN_PROGRESS"
          /\ leads[i]["phone"] = out.before[i]["phone"]

----------------------------------------------------------------------------
(* The staff surface of the store                                          *)

StaffHandlers ==
    {"cmd_leads", "cmd_lead", "cmd_status", "cmd_export",
     "adm_take_progress", "adm_show_phone"}

\* C21: when the pool is None, a handler that calls a store operation gets a
\* failure result it treats as an expected outcome: no exception leaves the
\* handler, which completes its reply to the user.
C21_UnavailableStoreIsAnswered ==
    (out.handler \in StaffHandlers /\ pool = "none") => ~out.raised

\* C22: a user whose id is not in the staff list never changes a lead's
\* status and is never sent a lead's data: /leads, /lead, /status, /export
\* and the adm:progress and adm:call buttons leave the table as it was, call
\* no status update and show no lead to such a user.
C22_StaffOnly ==
    (out.handler \in StaffHandlers /\ out.event.uid \notin Admins) =>
        /\ leads = out.before
        /\ ~out.called
        /\ out.disclosed = {}

C22_Witness ==
    /\ out.handler = "adm_show_phone"
    /\ out.event.uid \in Users
    /\ out.store_ok
    /\ \E i \in DOMAIN leads : <<"adm", "call", "1">> = out.event.data /\ leads[i]["id"] = 1
    /\ out.notice = "no_access"

----------------------------------------------------------------------------
(* Weight and volume resolution on its own                                 *)

\* Strings handed to the resolution that are not preset tokens
ResolveTexts == {"500", "500.0", "2.5", "2,5", "15000", "0", "-5", "abc", ""}

WeightInputs == DOMAIN WEIGHT_TO_FLOAT \cup ResolveTexts

VolumeInputs == DOMAIN VOLUME_TO_FLOAT \cup ResolveTexts

\* _resolve_weight and _resolve_volume are applied to a pair of stored values
Resolve ==
    \E w \in WeightInputs, v \in VolumeInputs :
        /\ out' = DictMerge(OutBase,
                      [handler |-> "resolve",
                       answers |-> [weight_kg |-> w, volume_m3 |-> v],
                       lead    |-> [weight_kg |-> resolve_weight(w),
                                    volume_m3 |-> resolve_volume(v)]])
        /\ UNCHANGED <<fsm, pool, leads, guardVars, proc>>

SpecResolve == Init /\ [][Resolve]_vars

\* What the resolution of value is to be: the table's value for a preset
\* token, the parsed number for a string that is a number with a dot or a
\* comma as decimal separator, and 0 for any other string.
Resolved(table, value) ==
    IF value \in DOMAIN table THEN table[value]
    ELSE LET f == PyFloat(ReplaceComma(value))
         IN  IF f.ok THEN f.val ELSE 0

\* C24: weight and volume resolution returns the table's value for a known
\* preset token, the parsed value for any other string that parses as a
\* number with a dot or a comma as decimal separator, and 0 for any other
\* string.
C24_ResolutionIsTotal ==
    out.handler = "resolve" =>
        /\ out.lead["weight_kg"] = Resolved(WEIGHT_TO_FLOAT, out.answers["weight_kg"])
        /\ out.lead["volume_m3"] = Resolved(VOLUME_TO_FLOAT, out.answers["volume_m3"])

----------------------------------------------------------------------------
(* The card of a run                                                       *)

\* C25: in a funnel run in which no edit of an existing message fails there
\* is one card message: the state holds a reference to the message created
\* at funnel start and every step, including the steps reached by typed
\* input and the phone step, edits that message rather than sending a new
\* card.
C25_SingleCard == out.notice = "card" => ~out.card_sent

----------------------------------------------------------------------------
(* The services offered                                                    *)

\* C26: service selection offers a free-question service, and choosing it
\* bypasses every structured step: the question is captured and the staff
\* notified without the country, cargo, weight, volume, urgency, terms or
\* invoice steps.
C26_FreeQuestionOffered ==
    \A u \in Users :
        fsm[u].state = "service" =>
            \E b \in service_kb :
                /\ b = <<"service", "free_question">>
                /\ Handle(fsm[u], Callback(u, b), leads, EnvOk, pool).conv.state
                       \notin {"country", "city", "cargo_type", "weight", "volume",
                               "urgency", "incoterms", "customs_cargo",
                               "customs_country", "invoice_value", "customs_urgency"}

----------------------------------------------------------------------------
(* Garbage collection of the guard tables                                  *)

\* The last arrival ran the periodic cleanup pass
CleanupJustRan == verdict.result # "" /\ last_cleanup = verdict.at

\* C27: after a periodic cleanup pass no user whose rate timestamps are all
\* stale remains in the rate table, and no user whose dedup entries are all
\* older than DEDUP_SECONDS remains in the dedup table.
C27_StaleEntriesCollected ==
    CleanupJustRan =>
        /\ \A u \in DOMAIN rate :
              \E i \in DOMAIN rate[u] :
                  verdict.at - rate[u][i] <= RATE_LIMIT_SECONDS * STALE_WINDOWS
        /\ \A u \in DOMAIN dedup :
              \E h \in DOMAIN dedup[u] :
                  verdict.at - dedup[u][h] < DEDUP_SECONDS

----------------------------------------------------------------------------
(* Starting over                                                           *)

\* The start events of user u: the command, a start phrase, the restart
\* button
StartEvents(u) ==
    {TextMessage(u, t) : t \in StartTexts} \cup {Callback(u, <<"action", "restart">>)}

\* The keys of the conversation data that refer to the card
CardKeys == {"card_id", "card_message_id"}

\* C28: a start event received at any step of any track discards the run in
\* progress: afterwards the user is at service selection, none of the
\* accumulated answer fields remains, and no lead is created.
C28_StartDiscardsRun ==
    \A u \in Users :
        \A ev \in StartEvents(u) :
            LET r == Handle(fsm[u], ev, leads, EnvOk, pool)
            IN  /\ r.conv.state = "service"
                /\ DOMAIN r.conv.data \subseteq CardKeys
                /\ r.rows = leads
                /\ ~r.out.stored

C28_Witness ==
    /\ out.handler \in {"cmd_start", "text_start"}
    /\ out.had_state
    /\ LastConv.state = "service"
    /\ DOMAIN LastConv.data \subseteq CardKeys

----------------------------------------------------------------------------
(* bot/db.py, bot/main.py: connecting to the database                      *)

\* for attempt in range(1, RETRY_STOP)
RETRY_STOP == 40

\* await asyncio.sleep(RETRY_SLEEP) before each attempt
RETRY_SLEEP == 15

\* The number of _retry_connect tasks the model lets run at a time
MaxRetryTasks == 1

\* The number of asyncpg pools the model lets be open at a time
MaxOpenPools == 2

\* A _retry_connect task that has just been created
NewRetryTask == [failed |-> 0, slept |-> 0]

\* tasks without its i-th task
WithoutTask(tasks, i) ==
    [j \in 1..(Len(tasks) - 1) |-> IF j < i THEN tasks[j] ELSE tasks[j + 1]]

\* create_pool followed by _run_migrations: "ok" when both succeed,
\* "no_pool" when the pool cannot be created, "no_schema" when the pool is
\* created and the migrations fail
ConnectOutcomes(db_up) == IF db_up THEN {"ok", "no_schema"} ELSE {"no_pool"}

\* The process after main has awaited init_db: connected, or not connected
\* with a _retry_connect task created
ProcStarted ==
    {ProcUp} \cup
    {[ProcUp EXCEPT !.db_up = up, !.tasks = <<NewRetryTask>>,
                    !.migrated = FALSE, !.open = 0] : up \in BOOLEAN}

InitProc ==
    /\ fsm = [u \in Users |-> clear]
    /\ leads = << >>
    /\ out = OutBase
    /\ GuardInit
    /\ proc \in ProcStarted
    /\ pool = IF proc.tasks = << >> THEN "pool" ELSE "none"

\* The database becomes reachable or unreachable
DbFlip ==
    /\ proc' = [proc EXCEPT !.db_up = ~@]
    /\ out' = OutBase
    /\ UNCHANGED <<fsm, pool, leads, guardVars>>

\* _retry_connect: asyncio.sleep(15) of a task is over
RetrySleep ==
    \E i \in DOMAIN proc.tasks :
        /\ proc.tasks[i].slept = 0
        /\ proc' = [proc EXCEPT !.tasks[i].slept = RETRY_SLEEP]
        /\ out' = OutBase
        /\ UNCHANGED <<fsm, pool, leads, guardVars>>

\* _retry_connect: one attempt of a task.  On success the task returns; a
\* pool whose migrations failed stays in db.pool while the loop goes on, and
\* the pool an attempt creates replaces db.pool without a close;
\* after the last attempt of the range the task ends.
RetryAttempt ==
    \E i \in DOMAIN proc.tasks :
    /\ proc.tasks[i].slept > 0
    /\ \E outcome \in ConnectOutcomes(proc.db_up) :
          LET t      == proc.tasks[i]
              failed == IF outcome = "ok" THEN t.failed ELSE t.failed + 1
              ends   == outcome = "ok" \/ failed >= RETRY_STOP - 1
          IN  /\ outcome # "no_pool" => proc.open < MaxOpenPools
              /\ pool' = IF outcome = "no_pool" THEN pool ELSE "pool"
              /\ proc' = [proc EXCEPT
                             !.tasks = IF ends THEN WithoutTask(proc.tasks, i)
                                       ELSE [proc.tasks EXCEPT ![i] =
                                                [failed |-> failed, slept |-> 0]],
                             !.open = IF outcome = "no_pool" THEN @ ELSE @ + 1,
                             !.migrated = IF outcome = "no_pool" THEN @
                                          ELSE outcome = "ok"]
              /\ out' = DictMerge(OutBase,
                            [handler |-> "retry_connect",
                             notice  |-> IF outcome = "ok" THEN "connected"
                                         ELSE IF ends THEN "gave_up" ELSE "failed",
                             attempt |-> t.failed + 1,
                             waited  |-> t.slept])
    /\ UNCHANGED <<fsm, leads, guardVars>>

\* _db_health_loop, once a minute: nothing when the pool is None; SELECT 1 on
\* the pool otherwise, and when that fails the pool is closed, set to None
\* and init_db is started as a task.
DbHealthCheck ==
    /\ pool = "pool" /\ ~proc.db_up => Len(proc.tasks) < MaxRetryTasks
    /\ IF pool = "pool" /\ ~proc.db_up
       THEN /\ pool' = "none"
            /\ proc' = [proc EXCEPT !.init_pending = TRUE, !.open = @ - 1,
                                    !.migrated = FALSE]
            /\ out' = DictMerge(OutBase, [handler |-> "db_health", notice |-> "reconnecting"])
       ELSE /\ out' = DictMerge(OutBase,
                          [handler |-> "db_health",
                           notice |-> IF pool = "none" THEN "skipped" ELSE "alive"])
            /\ UNCHANGED <<pool, proc>>
    /\ UNCHANGED <<fsm, leads, guardVars>>

\* init_db as started by the health check: connect and migrate, or set the
\* pool to None and create a _retry_connect task.  A pool created before the
\* failure is not closed.
InitDbTask ==
    /\ proc.init_pending
    /\ \E outcome \in ConnectOutcomes(proc.db_up) :
          /\ outcome # "no_pool" => proc.open < MaxOpenPools
          /\ pool' = IF outcome = "ok" THEN "pool" ELSE "none"
          /\ proc' = [proc EXCEPT !.init_pending = FALSE,
                                  !.tasks = IF outcome = "ok" THEN @
                                            ELSE Append(@, NewRetryTask),
                                  !.open = IF outcome = "no_pool" THEN @ ELSE @ + 1,
                                  !.migrated = outcome = "ok"]
          /\ out' = DictMerge(OutBase,
                        [handler |-> "init_db",
                         notice |-> IF outcome = "ok" THEN "connected" ELSE "failed"])
    /\ UNCHANGED <<fsm, leads, guardVars>>

\* A start event of a chat is handled
ChatEvent ==
    \E u \in Users, t \in StartTexts : Deliver(u, TextMessage(u, t), EnvOk)

NextProc ==
    \/ DbFlip
    \/ RetrySleep
    \/ RetryAttempt
    \/ DbHealthCheck
    \/ InitDbTask
    \/ ChatEvent

SpecProc == InitProc /\ [][NextProc]_vars

----------------------------------------------------------------------------
(* Exceptions of handlers                                                  *)

\* C23: an exception raised while handling an inbound event is caught and
\* logged at the top level and does not stop event processing: polling has
\* not crashed and is on, and the events that arrive afterwards, from the
\* same or another user, are dispatched to their handlers.
C23_ErrorsDoNotStopProcessing ==
    out.raised =>
        /\ out.logged
        /\ proc.crashes = 0
        /\ proc.polling = "on"
        /\ \A u \in Users : ENABLED SendText(u)

C23_Witness ==
    /\ out.raised
    /\ out.logged
    /\ out.handler \in Finalizers
    /\ LastConv.state = "comment"


----------------------------------------------------------------------------
(* Reconnecting to the database                                            *)

\* C29: the reconnection task waits 15 seconds before each attempt, stops at
\* the first success, and otherwise ends after 40 failed attempts; while it
\* waits or retries, chat events are still handled.
C29_RetryIsBounded ==
    /\ out.handler = "retry_connect" =>
          /\ out.waited = 15
          /\ out.notice = "connected" => pool = "pool" /\ proc.tasks = << >>
          /\ out.notice = "failed" => out.attempt < 40
          /\ out.notice = "gave_up" => out.attempt = 40
    /\ proc.tasks # << >> => \A u \in Users : ENABLED Deliver(u, TextMessage(u, "/start"), EnvOk)

\* C30: whenever the pool is None while the process runs, a task is still
\* going to attempt a reconnect.
C30_SomeTaskWillReconnect ==
    proc.polling = "on" /\ pool = "none" =>
        proc.tasks # << >> \/ proc.init_pending


----------------------------------------------------------------------------
(* Back navigation and the accumulated answers                             *)

\* Every back button of the keyboards
BackPresses(u) == {Callback(u, <<"back", t>>) : t \in DOMAIN BackTarget}

\* C31: a back action changes only the current step: every accumulated
\* answer is left as it was, no lead is written, and the choice list shown
\* for the restored step is the one the step shows when it is entered with
\* the stored answers (the cities of the stored country at the city step).
C31_BackKeepsAnswers ==
    \A u \in Users : \A ev \in BackPresses(u) : \A edit_ok \in BOOLEAN :
        LET r == Handle(fsm[u], ev, leads, [EnvOk EXCEPT !.edit_ok = edit_ok], pool)
        IN  fsm[u].state # "none" =>
              /\ r.conv.data = fsm[u].data
              /\ r.rows = leads
              /\ ~r.out.raised =>
                    /\ r.conv.state = BackTarget[ev.data[2]]
                    /\ r.out.keyboard = Keyboard(r.conv)

C31_Witness ==
    /\ out.handler = "handle_back"
    /\ out.event.data = <<"back", "city">>
    /\ LastConv.state = "city"
    /\ DictGet(LastConv.data, "country", "") = "Vietnam"
    /\ DictGet(LastConv.data, "city_from", "") = "Hanoi"
    /\ out.keyboard = {<<"city", "Vietnam", "__custom__">>, <<"back", "country">>}


----------------------------------------------------------------------------
(* Updates handled as concurrent tasks.  dp.start_polling handles each     *)
(* update in a task of its own and the dispatcher has no event isolation,  *)
(* so the handlers of two updates of one user interleave at their awaits   *)
(* of the Bot API and of the database.  proc.updates holds the handler     *)
(* tasks that are suspended at such an await.                              *)

\* The handler tasks the model lets be in flight at a time
MaxInFlight == 2

TerminalEvents(u) == {Callback(u, <<"skip_comment">>), TextMessage(u, "call me")}

\* A user at the comment step with the answers of a run
InitTasks ==
    /\ \E a \in {x \in SampleAnswers : x["comment"] = ""} :
          fsm = [u \in Users |->
                    Conv("comment", DictMerge(a, [card_message_id |-> NewMessageId]))]
    /\ pool \in {"pool", "none"}
    /\ leads = << >>
    /\ out = OutBase
    /\ GuardInit
    /\ proc = ProcUp

\* What a segment of a handler task reports: the handler, its event, the
\* counts of leads saved and of staff notifications so far
TaskOut(t, o) ==
    DictMerge(DictMerge(OutBase,
        [handler |-> t.handler, event |-> t.ev, had_state |-> TRUE,
         saves |-> out.saves, rounds |-> out.rounds]), o)

\* _finish_order from its first line to the await inside save_lead:
\* get_data, lead_data, _check_pool.  Yields the task suspended in the
\* database call, or ended by the exception (pc "raised").
begin_finish(t, c, p) ==
    IF ~check_pool(p) THEN [t EXCEPT !.pc = "raised"]
    ELSE [t EXCEPT !.pc = "save", !.lead = lead_data_of(c.data, t.ev, EnvOk)]

\* An update passes the filter of skip_comment or type_comment and its
\* handler runs to its first await
StartTerminal ==
    \E u \in Users : \E ev \in TerminalEvents(u) :
        LET h  == Route(fsm[u], ev)
            t  == [handler |-> h, ev |-> ev, pc |-> "edit", lead |-> EmptyDict]
            c1 == update_data(fsm[u], [comment |-> ev.text])
            t1 == IF h = "skip_comment" THEN t ELSE begin_finish(t, c1, pool)
        IN  /\ proc.polling = "on"
            /\ Len(proc.updates) < MaxInFlight
            /\ h \in Finalizers
            /\ fsm' = [fsm EXCEPT ![u] = c1]
            /\ proc' = IF t1.pc = "raised" THEN proc
                       ELSE [proc EXCEPT !.updates = Append(@, t1)]
            /\ out' = TaskOut(t, [raised |-> t1.pc = "raised", logged |-> t1.pc = "raised",
                                  notice |-> "started"])
            /\ UNCHANGED <<pool, leads, guardVars>>

\* The await of a suspended handler task returns or raises and the handler
\* runs to its next await or to its end
ResumeTask ==
    \E i \in DOMAIN proc.updates :
    \E env \in {EnvOk, [EnvOk EXCEPT !.edit_ok = FALSE], [EnvOk EXCEPT !.db_ok = FALSE],
                [EnvOk EXCEPT !.send_ok = FALSE]} :
        LET t    == proc.updates[i]
            u    == t.ev.uid
            rest == WithoutTask(proc.updates, i)
            s    == save_lead(t.lead, pool, leads, env.db_ok)
            t1   == CASE t.pc = "edit" ->
                            IF env.edit_ok THEN begin_finish(t, fsm[u], pool)
                            ELSE [t EXCEPT !.pc = "raised"]
                      [] t.pc = "save" ->
                            [t EXCEPT !.pc = IF s.ok THEN "confirm" ELSE "raised"]
                      [] t.pc = "confirm" ->
                            [t EXCEPT !.pc = IF env.send_ok THEN "notify" ELSE "raised"]
                      [] OTHER -> [t EXCEPT !.pc = "done"]
        IN  /\ leads' = IF t.pc = "save" THEN s.rows ELSE leads
            /\ fsm' = IF t1.pc = "done" THEN [fsm EXCEPT ![u] = clear] ELSE fsm
            /\ proc' = [proc EXCEPT !.updates =
                           IF t1.pc \in {"raised", "done"} THEN rest
                           ELSE [k \in DOMAIN proc.updates |->
                                    IF k = i THEN t1 ELSE proc.updates[k]]]
            /\ out' = TaskOut(t,
                          [raised |-> t1.pc = "raised", logged |-> t1.pc = "raised",
                           lead   |-> t.lead,
                           saves  |-> out.saves + (IF t.pc = "save" /\ s.ok THEN 1 ELSE 0),
                           rounds |-> out.rounds + (IF t.pc = "notify" THEN 1 ELSE 0),
                           notice |-> IF t1.pc = "done" THEN "accepted"
                                      ELSE IF t1.pc = "raised" THEN "" ELSE "resumed"])
            /\ UNCHANGED <<pool, guardVars>>

NextTasks == StartTerminal \/ ResumeTask

SpecTasks == InitTasks /\ [][NextTasks]_vars

\* Every handler task of the run has ended
RunHandled == out.handler \in Finalizers /\ proc.updates = << >>

\* C32: a run that reaches the terminal step creates exactly one lead and
\* notifies the staff at most once, however the handler tasks of its
\* terminal events interleave.
C32_OneLeadPerRun ==
    /\ RunHandled => Len(leads) = 1 /\ out.saves = 1
    /\ Len(leads) <= 1
    /\ out.rounds <= 1


\* Two handler tasks of one run are both inside save_lead
TwoSavesInFlight ==
    /\ Len(proc.updates) = 2
    /\ \A i \in DOMAIN proc.updates : proc.updates[i].pc = "save"


----------------------------------------------------------------------------
(* The lead handed to save_lead                                            *)

\* The questions of each track, as keys of lead_data
TrackQuestions(service) ==
    IF service = "customs"
    THEN {"cargo_type", "country", "invoice_value", "customs_urgency"}
    ELSE {"country", "city_from", "cargo_type", "weight_kg", "volume_m3",
          "urgency", "incoterms"}

\* C33: every lead passed to save_lead has a non-empty phone and a value for
\* every question of its track.
C33_SavedLeadIsComplete ==
    Finalized =>
        /\ out.lead["phone"] # ""
        /\ \A k \in TrackQuestions(out.lead["service_type"]) :
              out.lead[k] \notin {"", 0}


----------------------------------------------------------------------------
(* Steps and tracks                                                        *)

\* OrderForm: the steps only the customs track has, and the steps only the
\* delivery track has
CustomsSteps == {"customs_cargo", "customs_country", "invoice_value", "customs_urgency"}
DeliverySteps == {"country", "city", "cargo_type", "weight", "volume", "urgency", "incoterms"}

\* C34: the current step belongs to the track recorded in the service field,
\* and a user past service selection has a service recorded.
C34_StepBelongsToTrack ==
    \A u \in Users :
        LET c == fsm[u]
            service == DictGet(c.data, "service", "")
        IN  /\ c.state \notin {"none", "service"} => service \in {"customs", "delivery"}
            /\ service = "customs" => c.state \notin DeliverySteps
            /\ service = "delivery" => c.state \notin CustomsSteps


----------------------------------------------------------------------------
(* The size of the rate table and the load on the handlers                 *)

\* The counted messages of the sender of handled[i] that reached a handler
\* in the RATE_LIMIT_SECONDS ending with handled[i]
HandledInWindow(i) ==
    {j \in DOMAIN handled :
        /\ handled[j].event.uid = handled[i].event.uid
        /\ handled[j].at <= handled[i].at
        /\ handled[j].at > handled[i].at - RATE_LIMIT_SECONDS}

\* C35: no user's list of rate timestamps holds more than
\* RATE_LIMIT_MESSAGES entries, and in any RATE_LIMIT_SECONDS at most
\* RATE_LIMIT_MESSAGES counted messages of a user reach a handler.
C35_RateTableBounded ==
    /\ \A u \in DOMAIN rate : Len(rate[u]) <= RATE_LIMIT_MESSAGES
    /\ \A i \in DOMAIN handled : Cardinality(HandledInWindow(i)) <= RATE_LIMIT_MESSAGES

\* A user's list is full, and a fourth message of theirs was handled once
\* the window of the first had passed
C35_Witness ==
    /\ \E u \in DOMAIN rate : Len(rate[u]) = RATE_LIMIT_MESSAGES
    /\ Len(handled) > RATE_LIMIT_MESSAGES
    /\ verdict.result = "handled"
    /\ Counted(verdict.event)


----------------------------------------------------------------------------
(* Dropped messages and the two windows                                    *)

\* The guard's decision on message ev arriving now
Decide(ev) == antispam(ev, rate, dedup, last_cleanup, now)

\* The counted messages of user u handled less than s seconds ago
HandledWithin(u, s) ==
    {i \in DOMAIN handled : handled[i].event.uid = u /\ now - handled[i].at < s}

\* C36: a dropped message adds no rate timestamp and adds or refreshes no
\* dedup entry; so a message is not dropped by the rate limit unless
\* RATE_LIMIT_MESSAGES accepted messages of its sender lie within the last
\* RATE_LIMIT_SECONDS, and a long message is not dropped as a duplicate
\* unless an accepted occurrence lies within the last DEDUP_SECONDS.
C36_DroppedMessagesDoNotCount ==
    \A u \in Users : \A ev \in GuardMessages(u) :
        LET g == Decide(ev)
            before == DictGet(rate, ev.uid, << >>)
            bucket == DictGet(dedup, ev.uid, EmptyDict)
        IN  /\ g.result # "handled" =>
                /\ Len(DictGet(g.rate, ev.uid, << >>)) <= Len(before)
                /\ \A h \in DOMAIN DictGet(g.dedup, ev.uid, EmptyDict) :
                       h \in DOMAIN bucket /\ g.dedup[ev.uid][h] = bucket[h]
            /\ g.result = "rate" =>
                Cardinality(HandledWithin(ev.uid, RATE_LIMIT_SECONDS)) >= RATE_LIMIT_MESSAGES
            /\ g.result = "dedup" =>
                \E i \in HandledWithin(ev.uid, DEDUP_SECONDS) :
                    handled[i].event.text = ev.text


----------------------------------------------------------------------------
(* The guard beside a guard that never cleans up                           *)

\* The senders and the texts of the comparison, and the clock readings at
\* which messages arrive after StartClock: one inside the rate window of
\* StartClock, one later than the stale age of _cleanup
TwinUsers == {1001, 1002}
TwinTexts == {"menu", LongText}
TwinClock == {StartClock + 4, StartClock + 4 + RATE_LIMIT_SECONDS * STALE_WINDOWS + 4}

\* __call__ with the periodic cleanup disabled: the cleanup is never due
antispam_without_cleanup(ev, r, d, t) ==
    [antispam(ev, r, d, t, t) EXCEPT !.last_cleanup = 0]

\* A message reaches the guard and the guard that never cleans up
TwinArrive ==
    \E u \in TwinUsers : \E text \in TwinTexts :
        LET ev == TextMessage(u, text)
            g  == antispam(ev, rate, dedup, last_cleanup, now)
            g2 == antispam_without_cleanup(ev, twin.rate, twin.dedup, now)
        IN  /\ rate' = g.rate
            /\ dedup' = g.dedup
            /\ last_cleanup' = g.last_cleanup
            /\ verdict' = [event |-> ev, at |-> now, result |-> g.result]
            /\ twin' = [rate |-> g2.rate, dedup |-> g2.dedup, result |-> g2.result]
            /\ UNCHANGED <<now, handled, funnelVars, proc>>

TwinTick ==
    \E t \in TwinClock :
        /\ t > now
        /\ now' = t
        /\ UNCHANGED <<rate, dedup, last_cleanup, verdict, handled, twin, funnelVars, proc>>

NextTwin == TwinArrive \/ TwinTick

SpecTwin == InitGuard /\ [][NextTwin]_vars

\* The timestamps of list ts inside the rate window
InRateWindow(ts) ==
    LET Recent(x) == x > now - RATE_LIMIT_SECONDS IN SelectSeq(ts, Recent)

\* The entries of bucket b inside the dedup window
InDedupWindow(b) == Restrict(b, {h \in DOMAIN b : dedup_fresh(b[h], now)})

\* C37: each message is accepted or dropped as it is by the same guard with
\* cleanup disabled, and the guard holds every rate timestamp and every dedup
\* entry that guard holds inside the windows.
C37_CleanupChangesNoDecision ==
    /\ verdict.result = twin.result
    /\ \A u \in TwinUsers :
          /\ InRateWindow(DictGet(rate, u, << >>)) = InRateWindow(DictGet(twin.rate, u, << >>))
          /\ InDedupWindow(DictGet(dedup, u, EmptyDict))
                 = InDedupWindow(DictGet(twin.dedup, u, EmptyDict))

\* A cleanup pass has removed a user that the guard without cleanup still
\* holds, and a message was decided after it
C37_Witness ==
    /\ DOMAIN rate # DOMAIN twin.rate
    /\ verdict.result = "handled"
    /\ last_cleanup = verdict.at


----------------------------------------------------------------------------
(* Two users at once: the guard and the funnel together                    *)

\* Two users: the first goes through a customs run, the second sends
\* texts and starts over
PairUsers == {1001, 1002}

\* What the users of the pair send as text at each step
PairTexts(state) ==
    CASE state = "phone" -> {"/start", SharedPhone}
      [] state \in {"none", "service", "comment"} -> {"/start", LongText}
      [] OTHER -> {"/start"}

\* The buttons the first user presses
PairButtons ==
    {<<"service", "customs">>, <<"cargo", "electronics">>, <<"country", "china">>,
     <<"invoice", "inv_5000">>, <<"curgency", "normal">>, <<"skip_comment">>}

\* The clock reading after StartClock at which messages arrive: later than
\* the stale age of _cleanup
PairClock == {StartClock + RATE_LIMIT_SECONDS * STALE_WINDOWS + 4}

InitPair ==
    /\ fsm = [u \in PairUsers |-> clear]
    /\ pool = "pool"
    /\ leads = << >>
    /\ out = OutBase
    /\ GuardInit
    /\ proc = ProcUp

\* A text message of user u reaches dp.message.middleware and, unless the
\* guard drops it, its handler
PairText ==
    \E u \in PairUsers : \E text \in PairTexts(fsm[u].state) :
        LET ev == TextMessage(u, text)
            g  == antispam(ev, rate, dedup, last_cleanup, now)
            r  == Handle(fsm[u], ev, leads, EnvOk, pool)
            e  == global_error_handler(r.out.raised)
            passed == g.result = "handled"
        IN  /\ rate' = g.rate
            /\ dedup' = g.dedup
            /\ last_cleanup' = g.last_cleanup
            /\ verdict' = [event |-> ev, at |-> now, result |-> g.result]
            /\ fsm' = IF passed THEN [fsm EXCEPT ![u] = r.conv] ELSE fsm
            /\ leads' = IF passed THEN r.rows ELSE leads
            /\ out' = IF passed THEN [r.out EXCEPT !.logged = e.logged]
                      ELSE [OutBase EXCEPT !.event = ev, !.notice = "dropped"]
            /\ proc' = IF passed THEN after_update(proc, r.out.raised /\ ~e.handled)
                       ELSE proc
            /\ UNCHANGED <<pool, now, handled, twin>>

\* A button of the user's card is pressed: callback queries do not pass
\* through the message middleware
PairPress ==
    \E u \in {1001} : \E b \in Keyboard(fsm[u]) \cap PairButtons :
        Deliver(u, Callback(u, b), EnvOk)

PairTick ==
    \E t \in PairClock :
        /\ t > now
        /\ now' = t
        /\ UNCHANGED <<rate, dedup, last_cleanup, verdict, handled, twin, funnelVars, proc>>

NextPair == PairText \/ PairPress \/ PairTick

SpecPair == InitPair /\ [][NextPair]_vars


\* The events user u may send next
PairEvents(u) ==
    {TextMessage(u, t) : t \in PairTexts(fsm[u].state)} \cup {Callback(u, b) : b \in PairButtons}

\* The last step handled an event of a user other than b
OthersEvent(b) == now' = now /\ out'.event.uid # b

\* An event leaves the step, the answers, the rate list and the dedup bucket
\* of every other user as they were
OthersUntouched ==
    \A b \in PairUsers :
        OthersEvent(b) =>
            /\ fsm'[b] = fsm[b]
            /\ DictGet(rate', b, << >>) = DictGet(rate, b, << >>)
            /\ DictGet(dedup', b, EmptyDict) = DictGet(dedup, b, EmptyDict)

\* An event leaves the step and the answers of every other user as they
\* were, and their rate timestamps and dedup entries inside the windows
OthersWindowsUntouched ==
    \A b \in PairUsers :
        OthersEvent(b) =>
            /\ fsm'[b] = fsm[b]
            /\ InRateWindow(DictGet(rate', b, << >>)) = InRateWindow(DictGet(rate, b, << >>))
            /\ InDedupWindow(DictGet(dedup', b, EmptyDict))
                   = InDedupWindow(DictGet(dedup, b, EmptyDict))

\* Whatever user a sends first, the guard decides a message of user b, and
\* the handler of an event of b leaves b's conversation and builds b's lead,
\* as without it
OthersEventCommutes ==
    \A a \in PairUsers : \A b \in PairUsers \ {a} :
        \A ea \in PairEvents(a) : \A eb \in PairEvents(b) :
            LET ga == IF ea.kind = "message"
                      THEN antispam(ea, rate, dedup, last_cleanup, now)
                      ELSE [rate |-> rate, dedup |-> dedup, last_cleanup |-> last_cleanup,
                            result |-> "handled"]
                ra == Handle(fsm[a], ea, leads, EnvOk, pool)
                rows == IF ga.result = "handled" THEN ra.rows ELSE leads
                alone == Handle(fsm[b], eb, leads, EnvOk, pool)
                after == Handle(fsm[b], eb, rows, EnvOk, pool)
            IN  /\ antispam(eb, ga.rate, ga.dedup, ga.last_cleanup, now).result
                       = antispam(eb, rate, dedup, last_cleanup, now).result
                /\ after.conv = alone.conv
                /\ after.out.lead = alone.out.lead

\* C38 as stated: an event of user A never changes user B's step or
\* answers, never changes B's rate or dedup entries, does not make the guard
\* drop B's message, and B's run produces the same lead.
C38_UsersDoNotInterfere == [][OthersUntouched]_vars /\ []OthersEventCommutes

\* C38: an event of user A never changes user B's step or answers, nor B's
\* rate timestamps inside the rate window, nor B's dedup entries inside the
\* dedup window (a cleanup pass run for A's message may remove B's stale
\* rate list); it does not make the guard drop B's message, and B's run
\* produces the same lead.
C38_UsersDoNotInterfereInWindows == [][OthersWindowsUntouched]_vars /\ []OthersEventCommutes

\* The second user's long text is handled while the first user, who sent the
\* same text less than DEDUP_SECONDS before, is at the comment step
C38_Witness ==
    /\ out.event.uid = 1002
    /\ verdict.event = TextMessage(1002, LongText)
    /\ verdict.result = "handled"
    /\ fsm[1001].state = "comment"
    /\ LongText \in DOMAIN DictGet(dedup, 1001, EmptyDict)
    /\ dedup_fresh(dedup[1001][LongText], now)


----------------------------------------------------------------------------
(* The installed pool                                                      *)

\* C39: whenever the pool is not None the migrations were applied on it, and
\* it is the only open pool: no pool whose migrations failed is left
\* installed and no open pool is replaced or dropped without being closed.
C39_InstalledPoolIsMigrated ==
    /\ pool = "pool" => proc.migrated
    /\ proc.open = IF pool = "pool" THEN 1 ELSE 0


----------------------------------------------------------------------------
(* Buttons of older keyboards during a run                                 *)

\* Step-selection buttons of the older cards the model keeps in the chat:
\* of the first card, of both tracks, with a shared prefix and without, and
\* the skip button
StepButtons ==
    {<<"service", "delivery">>, <<"cargo", "electronics">>, <<"country", "china">>,
     <<"city", "china", "Guangzhou">>, <<"weight", "w_500">>, <<"invoice", "inv_5000">>,
     <<"terms", "exw">>, <<"skip_comment">>}

\* The step-selection buttons whose prefix is not one of the card of the
\* current step of conversation c
ForeignButtons(c) ==
    LET own == {k[1] : k \in Keyboard(c) \ BackButtons}
    IN  {b \in StepButtons : b[1] \notin own}

\* A user with a run in progress presses a step-selection button of an
\* older keyboard
PressForeign(u) ==
    /\ fsm[u].state # "none"
    /\ \E b \in ForeignButtons(fsm[u]) : Deliver(u, Callback(u, b), EnvOk)

\* A run answered with the offered buttons and with typed text (the phone
\* number is typed), with buttons of older cards pressed in between
NextOld ==
    \E u \in Users : PressOffered(u) \/ TypeAnswer(u) \/ PressForeign(u)

SpecOld == Init /\ [][NextOld]_vars

\* C40: for a user with an active run a step-selection callback whose
\* prefix does not belong to the current step writes no answer and does not
\* advance the run: the user is sent a new service-selection message and
\* the state is reset to service selection with the answers cleared.
C40_ForeignCallbackExpires ==
    \A u \in Users :
        fsm[u].state # "none" =>
            \A b \in ForeignButtons(fsm[u]) :
                LET r == Handle(fsm[u], Callback(u, b), leads, EnvOk, pool)
                IN  /\ r.out.handler = "expired_callback"
                    /\ r.out.notice = "expired"
                    /\ r.conv.state = "service"
                    /\ AnswerFields(r.conv.data) = {}
                    /\ r.rows = leads

\* A weight button of an older card, pressed at a later step of a run with
\* answers, has been answered as an expired session
C40_Witness ==
    /\ out.handler = "expired_callback"
    /\ out.had_state
    /\ out.event.data = <<"weight", "w_500">>
    /\ LastConv.state = "service"
    /\ AnswerFields(LastConv.data) = {}

====
